---- MODULE Spec2Model ----
(***************************************************************************)
(* Transaction lifecycle reconciliation of the M-Pesa integration backend. *)
(*                                                                         *)
(* The model follows the Mongoose-backed service                           *)
(* (Backend/services/mpesa.service.js), its timer utility                  *)
(* (utils/timer.js) and its callback controller.  Every store call and     *)
(* every gateway call is a suspension point: a handler is a small process  *)
(* whose steps are the store reads, store writes and gateway responses it  *)
(* awaits, and the steps of different handlers interleave freely.          *)
(*                                                                         *)
(* A document read with findOne is a private copy; save() writes back only *)
(* the paths whose value differs from the copy as it was read, whatever    *)
(* the stored document has become in the meantime.                         *)
(***************************************************************************)
EXTENDS Integers, Sequences, FiniteSets, TLC

(***************************************************************************)
(* Program constants (defaults of the service).                            *)
(***************************************************************************)
IntervalSeconds == 5

MaxAttempts == 12

TimeoutSeconds == 120

GraceSeconds == 5

(***************************************************************************)
(* Bounds of the model.                                                    *)
(***************************************************************************)
\* the clock stops advancing at MaxClock seconds
MaxClock == 135

\* initiation requests arrive while the clock is at most MaxInitiateAt
MaxInitiateAt == 0

\* number of push-payment webhook deliveries
MaxDeliveries == 2

\* number of disbursement result webhook deliveries
MaxB2CDeliveries == 2

(***************************************************************************)
(* Values.                                                                 *)
(***************************************************************************)
\* an unset (null or undefined) string field
Null == "null"

\* an unset numeric field
NoTime == 0 - 1

\* the correlation IDs the gateway issues for push payments
CheckoutIds == {"ws_1"}

\* a correlation ID this instance never created
UnknownCheckoutId == "ws_9"

Terminal == {"success", "failed", "cancelled"}

\* A provider result code is a JSON value: a number or a string.
Num(v) == [type |-> "number", value |-> v]

Str(v) == [type |-> "string", value |-> v]

NoCode == [type |-> "none", value |-> 0]

\* resultCode.toString()
CodeToString(c) ==
    CASE c.value = 0 -> "0"
      [] c.value = 1 -> "1"
      [] c.value = 2 -> "2"
      [] c.value = 17 -> "17"
      [] c.value = 1001 -> "1001"
      [] c.value = 1019 -> "1019"
      [] c.value = 1025 -> "1025"
      [] c.value = 1032 -> "1032"
      [] c.value = 1037 -> "1037"
      [] OTHER -> "other"

\* resultCode === n
StrictEq(c, n) == c.type = "number" /\ c.value = n

\* the provider's description that accompanies a result code
DescOf(c) ==
    IF c.value = 0 THEN "The service request is processed successfully."
    ELSE IF c.value = 1032 THEN "Request cancelled by user"
    ELSE "The service request has failed"

(***************************************************************************)
(* The Transaction document.                                               *)
(***************************************************************************)
NewTransaction(type, checkoutId, convId, origId, timeoutAt, t) ==
    [transactionType |-> type,
     checkoutRequestID |-> checkoutId,
     conversationId |-> convId,
     originatorConversationId |-> origId,
     status |-> "pending",
     resultCode |-> Null,
     resultDesc |-> Null,
     failureReason |-> Null,
     mpesaReceiptNumber |-> Null,
     timeoutAt |-> timeoutAt,
     timeoutHandled |-> FALSE,
     completedAt |-> NoTime,
     createdAt |-> t,
     updatedAt |-> t]

\* a handler that holds no document
NoDoc == NewTransaction(Null, Null, Null, Null, NoTime, NoTime)

\* document.save() of a copy read as snap and since changed to modified:
\* only the changed paths are written, and the timestamps option stamps
\* updatedAt when the caller has not changed it.
SaveDoc(stored, snap, modified, t) ==
    LET W(f) == IF modified[f] # snap[f] THEN modified[f] ELSE stored[f]
        merged == [transactionType |-> W("transactionType"),
                   checkoutRequestID |-> W("checkoutRequestID"),
                   conversationId |-> W("conversationId"),
                   originatorConversationId |-> W("originatorConversationId"),
                   status |-> W("status"),
                   resultCode |-> W("resultCode"),
                   resultDesc |-> W("resultDesc"),
                   failureReason |-> W("failureReason"),
                   mpesaReceiptNumber |-> W("mpesaReceiptNumber"),
                   timeoutAt |-> W("timeoutAt"),
                   timeoutHandled |-> W("timeoutHandled"),
                   completedAt |-> W("completedAt"),
                   createdAt |-> W("createdAt"),
                   updatedAt |-> W("updatedAt")]
    IN IF modified = snap THEN stored
       ELSE IF modified.updatedAt # snap.updatedAt THEN merged
       ELSE [merged EXCEPT !.updatedAt = t]

(***************************************************************************)
(* Result mapping of the two resolution paths.                             *)
(***************************************************************************)
\* a metadata item without a usable Value
Undefined == "undefined"

ItemNames == {"MpesaReceiptNumber", "Amount"}

\* CallbackMetadata.Item.reduce(...): a flat name-to-value map, later items
\* replacing earlier ones, items without Name or Value skipped
RECURSIVE ReduceItems(_, _)
ReduceItems(items, acc) ==
    IF items = <<>> THEN acc
    ELSE LET item == Head(items)
         IN ReduceItems(Tail(items),
                        IF item.Name # "" /\ item.Value # Undefined
                        THEN [acc EXCEPT ![item.Name] = item.Value]
                        ELSE acc)

\* the map with the first item of a name kept instead of the last
PaymentData_FirstWins(items) ==
    [n \in ItemNames |->
        LET S == {i \in 1..Len(items) :
                     items[i].Name = n /\ items[i].Value # Undefined}
        IN IF S = {} THEN Undefined
           ELSE items[CHOOSE i \in S : \A j \in S : i <= j].Value]

PaymentData(items) == ReduceItems(items, [n \in ItemNames |-> Undefined])

\* assigning undefined to a path unsets it
FieldOf(v) == IF v = Undefined THEN Null ELSE v

\* status and failure reason the webhook handler derives from a result code
CallbackStatus(code, desc) ==
    IF StrictEq(code, 0) THEN [status |-> "success", failureReason |-> Null]
    ELSE IF StrictEq(code, 1032)
         THEN [status |-> "cancelled", failureReason |-> "Transaction cancelled by user"]
    ELSE IF StrictEq(code, 1037)
         THEN [status |-> "cancelled", failureReason |-> "Timeout in customer response"]
    ELSE IF StrictEq(code, 1001)
         THEN [status |-> "failed", failureReason |-> "Incorrect PIN"]
    ELSE IF StrictEq(code, 1019)
         THEN [status |-> "failed", failureReason |-> "Transaction already processed"]
    ELSE IF StrictEq(code, 1025)
         THEN [status |-> "failed", failureReason |-> "Insufficient funds"]
    ELSE [status |-> "failed", failureReason |-> desc]

\* the document as handleStkCallback changes it before saving
CallbackUpdate(doc, payload, t) ==
    LET r == CallbackStatus(payload.ResultCode, payload.ResultDesc)
    IN IF StrictEq(payload.ResultCode, 0)
       THEN [doc EXCEPT !.status = r.status,
                        !.resultCode = CodeToString(payload.ResultCode),
                        !.resultDesc = payload.ResultDesc,
                        !.mpesaReceiptNumber =
                            FieldOf(PaymentData(payload.Items)["MpesaReceiptNumber"]),
                        !.timeoutHandled = TRUE,
                        !.completedAt = t,
                        !.updatedAt = t]
       ELSE [doc EXCEPT !.status = r.status,
                        !.resultCode = CodeToString(payload.ResultCode),
                        !.resultDesc = payload.ResultDesc,
                        !.failureReason = r.failureReason,
                        !.timeoutHandled = TRUE,
                        !.completedAt = t,
                        !.updatedAt = t]

\* status and failure reason queryStkStatus derives from a result code;
\* "pending" when the code is not taken as definitive
QueryStatus(code, desc) ==
    IF StrictEq(code, 0) THEN [status |-> "success", failureReason |-> Null]
    ELSE IF StrictEq(code, 1032)
         THEN [status |-> "cancelled", failureReason |-> "Transaction cancelled by user"]
    ELSE IF StrictEq(code, 1037)
         THEN [status |-> "cancelled", failureReason |-> "Timeout in customer response"]
    ELSE IF StrictEq(code, 1001)
         THEN [status |-> "failed", failureReason |-> "Incorrect PIN"]
    ELSE IF StrictEq(code, 1025)
         THEN [status |-> "failed", failureReason |-> "Insufficient funds"]
    ELSE IF ~StrictEq(code, 1) /\ ~StrictEq(code, 2)
         THEN [status |-> "failed", failureReason |-> desc]
    ELSE [status |-> "pending", failureReason |-> Null]

\* the document as queryStkStatus changes it before saving
QueryUpdate(doc, code, desc, t) ==
    LET r == QueryStatus(code, desc)
    IN [doc EXCEPT !.status = r.status,
                   !.resultCode = CodeToString(code),
                   !.resultDesc = desc,
                   !.failureReason = r.failureReason,
                   !.timeoutHandled = TRUE,
                   !.updatedAt = t]

\* the cancelling write without its assignment of status
CancelUpdate_KeepsStatus(doc, t) ==
    [doc EXCEPT !.failureReason = "Timeout - No Response",
                !.timeoutHandled = TRUE,
                !.updatedAt = t]

\* the write shared by poll-budget exhaustion and the hard timeout
CancelUpdate(doc, t) ==
    [doc EXCEPT !.status = "cancelled",
                !.failureReason = "Timeout - No Response",
                !.timeoutHandled = TRUE,
                !.updatedAt = t]

\* the write of a timeout that finds the transaction resolved
MarkHandledUpdate(doc, t) ==
    [doc EXCEPT !.timeoutHandled = TRUE, !.updatedAt = t]

(***************************************************************************)
(* Inputs.                                                                 *)
(***************************************************************************)
Item(n, v) == [Name |-> n, Value |-> v]

StkPayload(id, code, items) ==
    [CheckoutRequestID |-> id, ResultCode |-> code,
     ResultDesc |-> DescOf(code), Items |-> items]

\* metadata of a successful payment, with a nameless item, a repeated name
\* and an item without Value
ItemLists ==
    {<<Item("", "junk"), Item("MpesaReceiptNumber", "OLD000"),
       Item("Amount", Undefined), Item("MpesaReceiptNumber", "ABC123")>>}

\* the webhook bodies the provider may deliver
StkPayloads ==
    {StkPayload(id, Num(0), items) : id \in CheckoutIds, items \in ItemLists}
    \cup {StkPayload(id, c, <<>>) : id \in CheckoutIds, c \in {Num(1032)}}
    \cup {StkPayload(UnknownCheckoutId, Num(0), <<>>)}

\* the answers of the gateway to a status query
QueryCodes == {Num(0), Str(0), Num(1032), Num(1)}

\* errorMessage "The transaction is being processed" of an error response
StillProcessing == [type |-> "errorMessage", value |-> 0]

\* what a caller of queryStkStatus holds of an error response of the gateway
GatewayError(outcome) ==
    IF outcome.kind = "indeterminate" THEN StillProcessing ELSE NoCode

\* a catch clause that throws every error on to the caller
queryStkStatusCatch_Rethrows(outcome) == "thrown"

\* the catch clause of queryStkStatus: the "still processing" error becomes
\* the return value { ResultCode: -1, inProgress: true }, any other is thrown
queryStkStatusCatch(outcome) ==
    IF outcome.kind = "indeterminate" THEN "returned" ELSE "thrown"

QueryOutcomes ==
    {[kind |-> "definitive", code |-> c] : c \in QueryCodes}
    \cup {[kind |-> "indeterminate", code |-> NoCode],
          [kind |-> "error", code |-> NoCode]}

NoPayload == StkPayload(Null, NoCode, <<>>)

\* a delivery not yet made, and one whose handler has returned
\* ack is the HTTP status sent to the provider, 0 while none has been sent
NewCallback == [pc |-> "new", payload |-> NoPayload, ix |-> 0, snap |-> NoDoc,
                at |-> NoTime, ack |-> 0]

\* a webhook handler that never sends its acknowledgment
Acknowledge_Never(c) == c

\* res.status(200).json({ ResultCode: 0, ResultDesc: 'Accepted' })
Acknowledge(c) == [c EXCEPT !.ack = 200]

\* the delivery c once its handler has returned
Returned(c) == [NewCallback EXCEPT !.pc = "done", !.ack = c.ack]

\* the identifiers the gateway issues for an accepted disbursement
ConversationID == "AG_1"

OriginatorConversationID == "OCI_1"

B2CPayload(conv, orig, code) ==
    [ConversationID |-> conv, OriginatorConversationID |-> orig,
     ResultCode |-> code, ResultDesc |-> DescOf(code)]

\* the result webhooks the provider may deliver: both identifiers those of
\* the disbursement, only the originator's, neither
B2CPayloads ==
    {B2CPayload(ids[1], ids[2], c) :
        ids \in {<<ConversationID, OriginatorConversationID>>,
                 <<"AG_9", OriginatorConversationID>>,
                 <<"AG_9", "OCI_9">>},
        c \in {Num(0), Num(1)}}

NewB2CCallback == [pc |-> "new", payload |-> B2CPayload(Null, Null, NoCode),
                   ix |-> 0, snap |-> NoDoc, at |-> NoTime, ack |-> 0]

\* the disbursement webhook c once its handler has returned
ReturnedB2C(c) == [NewB2CCallback EXCEPT !.pc = "done", !.ack = c.ack]

(***************************************************************************)
(* State.                                                                  *)
(***************************************************************************)
VARIABLES
    now,               \* Math.floor(Date.now() / 1000)
    transactions,      \* the Transaction collection, in insertion order
    activeTimeouts,    \* timer.js: correlation ID -> time the timeout fires
    graceTimers,       \* setTimeout of initiateSTKPush: ID -> time it fires
    pollingIntervals,  \* _pollingIntervals: ID -> time of the next tick
    attempts,          \* the attempts counter of each poller
    initiation,        \* the initiateSTKPush call
    callbacks,         \* the handleStkCallback calls, one per delivery
    ticks,             \* the poll ticks under way
    timeouts,          \* the timeout callback of each correlation ID
    b2cSend,           \* the sendB2CPayment call
    b2cCallbacks,      \* the disbursement webhook handler calls
    callbackRecords,   \* the Callback collection
    retry,             \* the retryTransaction request
    repair,            \* the fixIncorrectTransactions request
    requests,          \* the webhook requests received, one per delivery
    auth,              \* the getAccessToken calls and the provider's tokens
    queries,           \* status queries the poll ticks of each ID have issued
    timer,             \* timer.js with the setTimeout timers of Node it holds
    sweep              \* the checkPendingTransactions request

vars == <<now, transactions, activeTimeouts, graceTimers, pollingIntervals,
          attempts, initiation, callbacks, ticks, timeouts, b2cSend,
          b2cCallbacks, callbackRecords, retry, repair, requests, auth,
          queries, timer, sweep>>

\* the state the disbursement handlers leave alone; no handler of the
\* service or of its controller writes the Callback collection
stkVars == <<activeTimeouts, graceTimers, pollingIntervals, attempts,
             initiation, callbacks, ticks, timeouts, callbackRecords,
             retry, repair, requests, auth, queries, timer, sweep>>

\* the state the push-payment handlers leave alone
b2cVars == <<b2cSend, b2cCallbacks, callbackRecords, retry, repair, requests,
             auth, queries, timer, sweep>>

Deliveries == 1..MaxDeliveries

B2CDeliveries == 1..MaxB2CDeliveries

\* setInterval starts a tick whether or not the one before it has returned:
\* the ticks of a poller that can be under way at a time.  Where store and
\* gateway calls are answered within one clock unit only the first is used.
TickSlots == {1, 2}

IdleProc == [pc |-> "idle", id |-> Null, ix |-> 0, snap |-> NoDoc,
             qix |-> 0, qsnap |-> NoDoc, at |-> NoTime, code |-> NoCode]

DoneProc == [IdleProc EXCEPT !.pc = "done"]

\* a timer map with the entry for id set / removed; NoTime is no entry
TimerSet(m, id, due) == IF id \in DOMAIN m THEN [m EXCEPT ![id] = due] ELSE m

TimerClear(m, id) == IF id \in DOMAIN m THEN [m EXCEPT ![id] = NoTime] ELSE m

Armed(m, id) == id \in DOMAIN m /\ m[id] # NoTime

Due(m, id) == Armed(m, id) /\ m[id] <= now

\* a lookup that falls back to the oldest document when none matches
FindByCheckout_First(id) ==
    LET S == {i \in 1..Len(transactions) : transactions[i].checkoutRequestID = id}
    IN IF S # {} THEN CHOOSE i \in S : \A j \in S : i <= j
       ELSE IF Len(transactions) > 0 THEN 1 ELSE 0

\* Transaction.findOne({ checkoutRequestID }): index of the document, 0 if none
FindByCheckout(id) ==
    LET S == {i \in 1..Len(transactions) : transactions[i].checkoutRequestID = id}
    IN IF S = {} THEN 0 ELSE CHOOSE i \in S : \A j \in S : i <= j

\* the collection after document ix is saved
Saved(ix, snap, modified, t) ==
    [transactions EXCEPT ![ix] = SaveDoc(transactions[ix], snap, modified, t)]

(***************************************************************************)
(* utils/encryption.js: the signature of a webhook request.  An HMAC is    *)
(* the pair of the key and the text it was computed from, which makes two  *)
(* digests equal exactly when both are.                                    *)
(***************************************************************************)
WebhookSecret == "k_provider"

\* config.security.skipWebhookVerification && config.env === 'development'
SkipWebhookVerification == FALSE

\* crypto.createHmac('sha256', secret).update(payload).digest('hex')
Hmac(secret, payload) == [key |-> secret, text |-> payload]

\* a header that is not a hex digest
MalformedSignature == [key |-> "", text |-> NoPayload]

\* verifySignature(payload, signature, secret): a header that cannot be
\* compared makes timingSafeEqual throw, which is caught
verifySignature(payload, signature, secret) ==
    IF SkipWebhookVerification THEN TRUE
    ELSE IF signature = MalformedSignature THEN FALSE
    ELSE Hmac(secret, payload) = signature

\* a request as it reaches the router: its body and its signature header
NoRequest == [body |-> NoPayload, signature |-> MalformedSignature, received |-> FALSE]

\* the headers a request with the given body may carry: the provider's
\* signature, one made with another key, the provider's signature of
\* another body, and none
SignaturesFor(payload) ==
    {Hmac(WebhookSecret, payload), Hmac("k_other", payload),
     Hmac(WebhookSecret, NoPayload), MalformedSignature}

(***************************************************************************)
(* getAccessToken.  The provider numbers the tokens it issues; a token is  *)
(* good for TokenLifetime seconds from its issue.                          *)
(***************************************************************************)
TokenLifetime == 60

MaxTokenCalls == 3

\* no call made yet: calls counts the calls of getAccessToken, requests the
\* authentication requests sent, token is the last token returned
NoAuth == [pc |-> "idle", calls |-> 0, requests |-> 0, token |-> 0,
           issuedAt |-> NoTime]

(***************************************************************************)
(* utils/timer.js by itself: the Map activeTimeouts (field active, 0 for   *)
(* no entry) beside the timers of Node that setTimeout has created and     *)
(* that have neither fired nor been cleared (field pending).  calls lists  *)
(* the timers whose callback has been called.                              *)
(***************************************************************************)
TimerIds == {"ws_1", "ws_2"}

\* the timeoutMs arguments, in seconds
TimerDelays == {IntervalSeconds, 2 * IntervalSeconds}

MaxTimerSets == 3

MaxTimerClock == 20

IdleTimer == [pending |-> {}, active |-> [id \in TimerIds |-> 0],
              nextHandle |-> 1, calls |-> <<>>]

\* clearTimeout(handle)
clearTimeout(pending, handle) == {h \in pending : h.handle # handle}

\* a clearTransactionTimeout that forgets the timer of Node
clearTransactionTimeout_OnlyDeletes(t, id) ==
    [t EXCEPT !.active[id] = 0]

\* clearTransactionTimeout
clearTransactionTimeout(t, id) ==
    IF t.active[id] # 0
    THEN [t EXCEPT !.pending = clearTimeout(t.pending, t.active[id]),
                   !.active[id] = 0]
    ELSE t

hasActiveTimeout(t, id) == t.active[id] # 0

\* a checkPendingTransactions request not yet made
IdleSweep == [pc |-> "idle", at |-> NoTime, scan |-> <<>>, ix |-> 0,
              snap |-> NoDoc, qix |-> 0, qsnap |-> NoDoc, qat |-> NoTime,
              code |-> NoCode, processed |-> <<>>, result |-> 0]

\* a request of the administrative interface not yet made
IdleRetry == [pc |-> "idle", ix |-> 0, result |-> 0]

IdleRepair == [pc |-> "idle", scan |-> <<>>, next |-> 0, at |-> NoTime,
               fixed |-> <<>>, result |-> 0]

\* the service starts on a store holding the given transactions
InitWith(stored) ==
    /\ now = 0
    /\ transactions = stored
    /\ activeTimeouts = [id \in CheckoutIds |-> NoTime]
    /\ graceTimers = [id \in CheckoutIds |-> NoTime]
    /\ pollingIntervals = [id \in CheckoutIds |-> NoTime]
    /\ attempts = [id \in CheckoutIds |-> 0]
    /\ initiation = [pc |-> "idle", id |-> Null, doc |-> NoDoc, result |-> Null,
                     ended |-> "no"]
    /\ callbacks = [w \in Deliveries |-> NewCallback]
    /\ ticks = [s \in TickSlots |-> IdleProc]
    /\ timeouts = [id \in CheckoutIds |-> IdleProc]
    /\ b2cSend = [pc |-> "idle", doc |-> NoDoc, result |-> Null, ended |-> "no"]
    /\ b2cCallbacks = [b \in B2CDeliveries |-> NewB2CCallback]
    /\ callbackRecords = <<>>
    /\ retry = IdleRetry
    /\ repair = IdleRepair
    /\ requests = [w \in Deliveries |-> NoRequest]
    /\ auth = NoAuth
    /\ queries = [id \in CheckoutIds |-> 0]
    /\ timer = IdleTimer
    /\ sweep = IdleSweep

Init == InitWith(<<>>)

(***************************************************************************)
(* initiateSTKPush                                                         *)
(***************************************************************************)
\* the request reaches the service, which calls the gateway
RequestSTKPush ==
    /\ initiation.pc = "idle"
    /\ now <= MaxInitiateAt
    /\ initiation' = [initiation EXCEPT !.pc = "gateway"]
    /\ UNCHANGED <<now, transactions, activeTimeouts, graceTimers,
                   pollingIntervals, attempts, callbacks, ticks, timeouts>>
    /\ UNCHANGED b2cVars

\* a test that takes any response for an acceptance
Accepted_AnyResponse(outcome) == outcome \in {"accepted", "rejected"}

\* response.data.ResponseCode === "0"
Accepted(outcome) == outcome = "accepted"

\* the gateway answers: accepted (ResponseCode "0"), a business rejection,
\* or a failed call; a rejection is returned to the caller, a failed call
\* is thrown
STKPushResponse(outcome, id) ==
    /\ initiation.pc = "gateway"
    /\ IF Accepted(outcome)
       THEN initiation' = [pc |-> "save", id |-> id, result |-> outcome,
                           ended |-> "no",
                           doc |-> NewTransaction("STK_PUSH", id, Null, Null,
                                                  now + 120, now)]
       ELSE initiation' = [initiation EXCEPT !.pc = "done", !.result = outcome,
                              !.ended = IF outcome = "rejected" THEN "returned"
                                        ELSE "thrown"]
    /\ UNCHANGED <<now, transactions, activeTimeouts, graceTimers,
                   pollingIntervals, attempts, callbacks, ticks, timeouts>>
    /\ UNCHANGED b2cVars

\* an initiation whose hard timeout is due one interval before the last
\* poll attempt
STKPushSaved_ShortTimeout ==
    /\ initiation.pc = "save"
    /\ transactions' = Append(transactions, initiation.doc)
    /\ activeTimeouts' = TimerSet(activeTimeouts, initiation.id,
                                  now + GraceSeconds + IntervalSeconds * (MaxAttempts - 1))
    /\ graceTimers' = TimerSet(graceTimers, initiation.id, now + GraceSeconds)
    /\ initiation' = [initiation EXCEPT !.pc = "done", !.doc = NoDoc,
                                        !.ended = "returned"]
    /\ UNCHANGED <<now, pollingIntervals, attempts, callbacks, ticks, timeouts>>
    /\ UNCHANGED b2cVars

\* transaction.save() completes; the timeout and the grace delay are armed
STKPushSaved ==
    /\ initiation.pc = "save"
    /\ transactions' = Append(transactions, initiation.doc)
    /\ activeTimeouts' = TimerSet(activeTimeouts, initiation.id, now + TimeoutSeconds)
    /\ graceTimers' = TimerSet(graceTimers, initiation.id, now + GraceSeconds)
    /\ initiation' = [initiation EXCEPT !.pc = "done", !.doc = NoDoc,
                                        !.ended = "returned"]
    /\ UNCHANGED <<now, pollingIntervals, attempts, callbacks, ticks, timeouts>>
    /\ UNCHANGED b2cVars

\* transaction.save() rejects: the error is logged, the timeout and the
\* grace delay are armed all the same and the response is returned
STKPushSaveFails ==
    /\ initiation.pc = "save"
    /\ activeTimeouts' = TimerSet(activeTimeouts, initiation.id, now + TimeoutSeconds)
    /\ graceTimers' = TimerSet(graceTimers, initiation.id, now + GraceSeconds)
    /\ initiation' = [initiation EXCEPT !.pc = "done", !.doc = NoDoc,
                                        !.ended = "returned"]
    /\ UNCHANGED <<now, transactions, pollingIntervals, attempts, callbacks,
                   ticks, timeouts>>
    /\ UNCHANGED b2cVars

\* the grace delay elapses: startStatusPolling
StartStatusPolling(id) ==
    /\ Due(graceTimers, id)
    /\ graceTimers' = TimerClear(graceTimers, id)
    /\ attempts' = [attempts EXCEPT ![id] = 0]
    /\ pollingIntervals' = TimerSet(pollingIntervals, id, now + IntervalSeconds)
    /\ UNCHANGED <<now, transactions, activeTimeouts, initiation, callbacks,
                   ticks, timeouts>>
    /\ UNCHANGED b2cVars

(***************************************************************************)
(* handleStkCallback                                                       *)
(***************************************************************************)
\* a webhook is delivered: polling is stopped and the timeout cleared
\* before the transaction is looked up
CallbackStart(w, payload) ==
    /\ callbacks[w].pc = "new"
    /\ \A v \in Deliveries : v < w => callbacks[v].pc # "new"
    /\ payload.CheckoutRequestID \in CheckoutIds =>
           initiation.pc \in {"save", "done"} /\ initiation.id = payload.CheckoutRequestID
    /\ pollingIntervals' = TimerClear(pollingIntervals, payload.CheckoutRequestID)
    /\ activeTimeouts' = TimerClear(activeTimeouts, payload.CheckoutRequestID)
    /\ callbacks' = [callbacks EXCEPT ![w] =
                        [Acknowledge(callbacks[w]) EXCEPT !.pc = "find",
                                                          !.payload = payload]]
    /\ UNCHANGED <<now, transactions, graceTimers, attempts, initiation, ticks,
                   timeouts>>
    /\ UNCHANGED b2cVars

\* findOne returns; the changes are made to the copy and save() is issued
CallbackFind(w) ==
    /\ callbacks[w].pc = "find"
    /\ LET ix == FindByCheckout(callbacks[w].payload.CheckoutRequestID)
       IN IF ix = 0
          THEN callbacks' = [callbacks EXCEPT ![w] = Returned(callbacks[w])]
          ELSE callbacks' = [callbacks EXCEPT ![w].pc = "save", ![w].ix = ix,
                                              ![w].snap = transactions[ix],
                                              ![w].at = now]
    /\ UNCHANGED <<now, transactions, activeTimeouts, graceTimers,
                   pollingIntervals, attempts, initiation, ticks, timeouts>>
    /\ UNCHANGED b2cVars

\* save() reaches the store
CallbackSave(w) ==
    /\ callbacks[w].pc = "save"
    /\ LET c == callbacks[w]
       IN transactions' = Saved(c.ix, c.snap,
                                CallbackUpdate(c.snap, c.payload, c.at), c.at)
    /\ callbacks' = [callbacks EXCEPT ![w] = Returned(callbacks[w])]
    /\ UNCHANGED <<now, activeTimeouts, graceTimers, pollingIntervals, attempts,
                   initiation, ticks, timeouts>>
    /\ UNCHANGED b2cVars

\* a body without Body.stkCallback: the TypeError raised after the
\* acknowledgment is caught and logged by the controller
CallbackMalformed(w) ==
    /\ callbacks[w].pc = "new"
    /\ \A v \in Deliveries : v < w => callbacks[v].pc # "new"
    /\ callbacks' = [callbacks EXCEPT ![w] = Returned(Acknowledge(callbacks[w]))]
    /\ UNCHANGED <<now, transactions, activeTimeouts, graceTimers,
                   pollingIntervals, attempts, initiation, ticks, timeouts>>
    /\ UNCHANGED b2cVars

\* findOne rejects: the service rethrows, the controller logs
CallbackFindFails(w) ==
    /\ callbacks[w].pc = "find"
    /\ callbacks' = [callbacks EXCEPT ![w] = Returned(callbacks[w])]
    /\ UNCHANGED <<now, transactions, activeTimeouts, graceTimers,
                   pollingIntervals, attempts, initiation, ticks, timeouts>>
    /\ UNCHANGED b2cVars

\* save() rejects: the service logs and returns
CallbackSaveFails(w) ==
    /\ callbacks[w].pc = "save"
    /\ callbacks' = [callbacks EXCEPT ![w] = Returned(callbacks[w])]
    /\ UNCHANGED <<now, transactions, activeTimeouts, graceTimers,
                   pollingIntervals, attempts, initiation, ticks, timeouts>>
    /\ UNCHANGED b2cVars

\* router.post("/callbacks/stk", mpesaController.handleStkCallback): the
\* request reaches the route, which hands it to the handler as it is
WebhookReceived(w, payload, signature) ==
    /\ ~requests[w].received
    /\ callbacks[w].pc = "new"
    /\ requests' = [requests EXCEPT ![w] =
                       [body |-> payload, signature |-> signature, received |-> TRUE]]
    /\ UNCHANGED <<now, transactions, activeTimeouts, graceTimers, pollingIntervals,
                   attempts, queries, initiation, callbacks, ticks, timeouts, b2cSend,
                   b2cCallbacks, callbackRecords, retry, repair, auth, timer, sweep>>

(***************************************************************************)
(* MpesaController.stkCallback, the first controller of the repository:    *)
(* the payload is handed to the service and the answer is written when the *)
(* service returns; the service method it calls is not in the repository,  *)
(* so only its two ways of ending are modelled                             *)
(***************************************************************************)
LegacyOutcomes == {"returned", "threw"}

\* await MpesaService.processStkCallback(callbackData): nothing has been
\* answered yet
LegacyStkCallbackStart(w) ==
    /\ callbacks[w].pc = "new"
    /\ callbacks' = [callbacks EXCEPT ![w].pc = "legacy"]
    /\ UNCHANGED <<now, transactions, activeTimeouts, graceTimers,
                   pollingIntervals, attempts, initiation, ticks, timeouts>>
    /\ UNCHANGED b2cVars

\* res.json(...) when the service returned, res.status(500) in the catch
LegacyStkCallbackReturn(w, outcome) ==
    /\ callbacks[w].pc = "legacy"
    /\ callbacks' = [callbacks EXCEPT ![w] =
          [NewCallback EXCEPT !.pc = "done",
                              !.ack = IF outcome = "returned" THEN 200 ELSE 500]]
    /\ UNCHANGED <<now, transactions, activeTimeouts, graceTimers,
                   pollingIntervals, attempts, initiation, ticks, timeouts>>
    /\ UNCHANGED b2cVars

(***************************************************************************)
(* startStatusPolling: one tick of the interval                            *)
(***************************************************************************)
\* clearInterval(pollInterval); this._pollingIntervals.delete(id)
StopInterval(id) == TimerClear(pollingIntervals, id)

FreeSlot(s) ==
    /\ ticks[s].pc = "idle"
    /\ \A r \in TickSlots : r < s => ticks[r].pc # "idle"

\* the interval fires: attempts++ and the first findOne is issued
TickFire(id, s) ==
    /\ Due(pollingIntervals, id)
    /\ FreeSlot(s)
    /\ attempts' = [attempts EXCEPT ![id] = attempts[id] + 1]
    /\ pollingIntervals' = TimerSet(pollingIntervals, id, now + IntervalSeconds)
    /\ ticks' = [ticks EXCEPT ![s] = [IdleProc EXCEPT !.pc = "find", !.id = id]]
    /\ UNCHANGED <<now, transactions, activeTimeouts, graceTimers, initiation,
                   callbacks, timeouts>>
    /\ UNCHANGED b2cVars

\* a budget that runs out one tick early
TickTail_Early(p) ==
    IF attempts[p.id] >= MaxAttempts - 1
    THEN [pc |-> "xfind", stop |-> TRUE]
    ELSE [pc |-> "idle", stop |-> FALSE]

\* a tick that clears the interval whenever it ends without a result
TickTail_AlwaysStops(p) ==
    IF attempts[p.id] >= MaxAttempts
    THEN [pc |-> "xfind", stop |-> TRUE]
    ELSE [pc |-> "idle", stop |-> TRUE]

\* the end of a tick: past the budget the interval is cleared and the
\* transaction is read once more
TickTail(p) ==
    IF attempts[p.id] >= MaxAttempts
    THEN [pc |-> "xfind", stop |-> TRUE]
    ELSE [pc |-> "idle", stop |-> FALSE]

\* a tick that stops only for a successful transaction
TickStops_OnlySuccess(doc) == doc.status = "success"

\* transaction.status !== "pending": the tick has nothing left to do
TickStops(doc) == doc.status # "pending"

\* the first findOne returns
TickFind(s) ==
    /\ ticks[s].pc = "find"
    /\ LET p == ticks[s]
           ix == FindByCheckout(p.id)
       IN IF ix = 0
          THEN /\ pollingIntervals' = StopInterval(p.id)
               /\ activeTimeouts' = activeTimeouts
               /\ ticks' = [ticks EXCEPT ![s] = IdleProc]
               /\ queries' = queries
          ELSE IF TickStops(transactions[ix])
          THEN /\ pollingIntervals' = StopInterval(p.id)
               /\ activeTimeouts' = TimerClear(activeTimeouts, p.id)
               /\ ticks' = [ticks EXCEPT ![s] = IdleProc]
               /\ queries' = queries
          ELSE /\ pollingIntervals' = pollingIntervals
               /\ activeTimeouts' = activeTimeouts
               /\ ticks' = [ticks EXCEPT ![s].pc = "query"]
               /\ queries' = [queries EXCEPT ![p.id] = queries[p.id] + 1]
    /\ UNCHANGED <<now, transactions, graceTimers, attempts, initiation,
                   callbacks, timeouts>>
    /\ UNCHANGED <<b2cSend, b2cCallbacks, callbackRecords, retry, repair,
                   requests, auth, timer, sweep>>

\* the gateway answers the status query of the tick
TickQueryResponse(s, outcome) ==
    /\ ticks[s].pc = "query"
    /\ LET p == ticks[s]
           tail == TickTail(p)
       IN CASE outcome.kind = "definitive" ->
                 /\ ticks' = [ticks EXCEPT ![s].pc = "qfind", ![s].code = outcome.code]
                 /\ pollingIntervals' = pollingIntervals
            [] /\ outcome.kind # "definitive"
               /\ queryStkStatusCatch(outcome) = "returned" ->
                 /\ ticks' = [ticks EXCEPT ![s].pc = "refetch",
                                           ![s].code = GatewayError(outcome)]
                 /\ pollingIntervals' = pollingIntervals
            [] OTHER ->
                 /\ ticks' = [ticks EXCEPT ![s] =
                                 [IdleProc EXCEPT !.pc = tail.pc, !.id = p.id,
                                                  !.code = GatewayError(outcome)]]
                 /\ pollingIntervals' =
                        IF tail.stop THEN StopInterval(p.id) ELSE pollingIntervals
    /\ UNCHANGED <<now, transactions, activeTimeouts, graceTimers, attempts,
                   initiation, callbacks, timeouts>>
    /\ UNCHANGED b2cVars

\* queryStkStatus: its findOne returns
TickQueryFind(s) ==
    /\ ticks[s].pc = "qfind"
    /\ LET p == ticks[s]
           ix == FindByCheckout(p.id)
       IN IF /\ ix # 0
             /\ transactions[ix].status = "pending"
             /\ QueryStatus(p.code, DescOf(p.code)).status # "pending"
          THEN ticks' = [ticks EXCEPT ![s].pc = "qsave", ![s].qix = ix,
                                      ![s].qsnap = transactions[ix],
                                      ![s].at = now]
          ELSE ticks' = [ticks EXCEPT ![s].pc = "refetch"]
    /\ UNCHANGED <<now, transactions, activeTimeouts, graceTimers,
                   pollingIntervals, attempts, initiation, callbacks, timeouts>>
    /\ UNCHANGED b2cVars

\* queryStkStatus: its save() reaches the store, then the timeout is cleared
TickQuerySave(s) ==
    /\ ticks[s].pc = "qsave"
    /\ LET p == ticks[s]
       IN /\ transactions' = Saved(p.qix, p.qsnap,
                                   QueryUpdate(p.qsnap, p.code, DescOf(p.code), p.at),
                                   p.at)
          /\ activeTimeouts' = TimerClear(activeTimeouts, p.id)
    /\ ticks' = [ticks EXCEPT ![s].pc = "refetch"]
    /\ UNCHANGED <<now, graceTimers, pollingIntervals, attempts, initiation,
                   callbacks, timeouts>>
    /\ UNCHANGED b2cVars

\* the tick reads the transaction again after the query
TickRefetch(s) ==
    /\ ticks[s].pc = "refetch"
    /\ LET p == ticks[s]
           ix == FindByCheckout(p.id)
           tail == TickTail(p)
       IN IF ix # 0 /\ transactions[ix].status # "pending"
          THEN /\ pollingIntervals' = StopInterval(p.id)
               /\ activeTimeouts' = TimerClear(activeTimeouts, p.id)
               /\ ticks' = [ticks EXCEPT ![s] = IdleProc]
          ELSE /\ pollingIntervals' =
                      IF tail.stop THEN StopInterval(p.id) ELSE pollingIntervals
               /\ activeTimeouts' = activeTimeouts
               /\ ticks' = [ticks EXCEPT ![s] =
                               [IdleProc EXCEPT !.pc = tail.pc, !.id = p.id]]
    /\ UNCHANGED <<now, transactions, graceTimers, attempts, initiation,
                   callbacks, timeouts>>
    /\ UNCHANGED b2cVars

\* budget exhausted: the last findOne returns
TickExhaustedFind(s) ==
    /\ ticks[s].pc = "xfind"
    /\ LET p == ticks[s]
           ix == FindByCheckout(p.id)
       IN IF ix # 0 /\ transactions[ix].status = "pending"
          THEN ticks' = [ticks EXCEPT ![s].pc = "xsave", ![s].ix = ix,
                                      ![s].snap = transactions[ix],
                                      ![s].at = now]
          ELSE ticks' = [ticks EXCEPT ![s] = IdleProc]
    /\ UNCHANGED <<now, transactions, activeTimeouts, graceTimers,
                   pollingIntervals, attempts, initiation, callbacks, timeouts>>
    /\ UNCHANGED b2cVars

\* budget exhausted: the cancelling save() reaches the store
TickExhaustedSave(s) ==
    /\ ticks[s].pc = "xsave"
    /\ LET p == ticks[s]
       IN transactions' = Saved(p.ix, p.snap, CancelUpdate(p.snap, p.at), p.at)
    /\ ticks' = [ticks EXCEPT ![s] = IdleProc]
    /\ UNCHANGED <<now, activeTimeouts, graceTimers, pollingIntervals, attempts,
                   initiation, callbacks, timeouts>>
    /\ UNCHANGED b2cVars

(***************************************************************************)
(* setTransactionTimeout: the callback of the hard timeout                 *)
(***************************************************************************)
\* the timer fires: the callback issues its findOne and the entry is
\* deleted from activeTimeouts
TimeoutFire(id) ==
    /\ Due(activeTimeouts, id)
    /\ timeouts[id].pc = "idle"
    /\ activeTimeouts' = TimerClear(activeTimeouts, id)
    /\ timeouts' = [timeouts EXCEPT ![id].pc = "find", ![id].id = id]
    /\ UNCHANGED <<now, transactions, graceTimers, pollingIntervals, attempts,
                   initiation, callbacks, ticks>>
    /\ UNCHANGED b2cVars

\* findOne returns: a pending transaction is queried once more, a resolved
\* one is only marked as handled
TimeoutFind(id) ==
    /\ timeouts[id].pc = "find"
    /\ LET ix == FindByCheckout(id)
       IN IF ix = 0
          THEN timeouts' = [timeouts EXCEPT ![id] = DoneProc]
          ELSE IF transactions[ix].status = "pending"
          THEN timeouts' = [timeouts EXCEPT ![id].pc = "query", ![id].ix = ix,
                                            ![id].snap = transactions[ix]]
          ELSE timeouts' = [timeouts EXCEPT ![id].pc = "mark", ![id].ix = ix,
                                            ![id].snap = transactions[ix],
                                            ![id].at = now]
    /\ UNCHANGED <<now, transactions, activeTimeouts, graceTimers,
                   pollingIntervals, attempts, initiation, callbacks, ticks>>
    /\ UNCHANGED b2cVars

\* the save() of a timeout that found the transaction resolved
TimeoutMarkSave(id) ==
    /\ timeouts[id].pc = "mark"
    /\ LET p == timeouts[id]
       IN transactions' = Saved(p.ix, p.snap, MarkHandledUpdate(p.snap, p.at), p.at)
    /\ timeouts' = [timeouts EXCEPT ![id] = DoneProc]
    /\ UNCHANGED <<now, activeTimeouts, graceTimers, pollingIntervals, attempts,
                   initiation, callbacks, ticks>>
    /\ UNCHANGED b2cVars

\* the gateway answers the final status query; a failed call is caught and
\* the cancelling save() is issued on the copy read at the start
TimeoutQueryResponse(id, outcome) ==
    /\ timeouts[id].pc = "query"
    /\ CASE outcome.kind = "definitive" ->
              timeouts' = [timeouts EXCEPT ![id].pc = "qfind", ![id].code = outcome.code]
         [] /\ outcome.kind # "definitive"
            /\ queryStkStatusCatch(outcome) = "returned" ->
              timeouts' = [timeouts EXCEPT ![id].pc = "refetch",
                                           ![id].code = GatewayError(outcome)]
         [] OTHER ->
              timeouts' = [timeouts EXCEPT ![id].pc = "cancel", ![id].at = now,
                                           ![id].code = GatewayError(outcome)]
    /\ UNCHANGED <<now, transactions, activeTimeouts, graceTimers,
                   pollingIntervals, attempts, initiation, callbacks, ticks>>
    /\ UNCHANGED b2cVars

\* queryStkStatus: its findOne returns
TimeoutQueryFind(id) ==
    /\ timeouts[id].pc = "qfind"
    /\ LET p == timeouts[id]
           ix == FindByCheckout(id)
       IN IF /\ ix # 0
             /\ transactions[ix].status = "pending"
             /\ QueryStatus(p.code, DescOf(p.code)).status # "pending"
          THEN timeouts' = [timeouts EXCEPT ![id].pc = "qsave", ![id].qix = ix,
                                            ![id].qsnap = transactions[ix],
                                            ![id].at = now]
          ELSE timeouts' = [timeouts EXCEPT ![id].pc = "refetch"]
    /\ UNCHANGED <<now, transactions, activeTimeouts, graceTimers,
                   pollingIntervals, attempts, initiation, callbacks, ticks>>
    /\ UNCHANGED b2cVars

\* queryStkStatus: its save() reaches the store, then the timeout is cleared
TimeoutQuerySave(id) ==
    /\ timeouts[id].pc = "qsave"
    /\ LET p == timeouts[id]
       IN /\ transactions' = Saved(p.qix, p.qsnap,
                                   QueryUpdate(p.qsnap, p.code, DescOf(p.code), p.at),
                                   p.at)
          /\ activeTimeouts' = TimerClear(activeTimeouts, id)
    /\ timeouts' = [timeouts EXCEPT ![id].pc = "refetch"]
    /\ UNCHANGED <<now, graceTimers, pollingIntervals, attempts, initiation,
                   callbacks, ticks>>
    /\ UNCHANGED b2cVars

\* a callback that leaves a transaction still pending after the query to
\* the poller
TimeoutRefetch_LeavesPending(id) ==
    /\ timeouts[id].pc = "refetch"
    /\ timeouts' = [timeouts EXCEPT ![id] = DoneProc]
    /\ UNCHANGED <<now, transactions, activeTimeouts, graceTimers,
                   pollingIntervals, attempts, initiation, callbacks, ticks>>
    /\ UNCHANGED b2cVars

\* the callback reads the transaction again after the query
TimeoutRefetch(id) ==
    /\ timeouts[id].pc = "refetch"
    /\ LET ix == FindByCheckout(id)
       IN IF ix # 0 /\ transactions[ix].status # "pending"
          THEN timeouts' = [timeouts EXCEPT ![id] = DoneProc]
          ELSE timeouts' = [timeouts EXCEPT ![id].pc = "cancel", ![id].at = now]
    /\ UNCHANGED <<now, transactions, activeTimeouts, graceTimers,
                   pollingIntervals, attempts, initiation, callbacks, ticks>>
    /\ UNCHANGED b2cVars

\* the cancelling save() reaches the store
TimeoutCancelSave(id) ==
    /\ timeouts[id].pc = "cancel"
    /\ LET p == timeouts[id]
       IN transactions' = Saved(p.ix, p.snap, CancelUpdate(p.snap, p.at), p.at)
    /\ timeouts' = [timeouts EXCEPT ![id] = DoneProc]
    /\ UNCHANGED <<now, activeTimeouts, graceTimers, pollingIntervals, attempts,
                   initiation, callbacks, ticks>>
    /\ UNCHANGED b2cVars

\* a failed cancelling save() is caught and logged: nothing is written
TickExhaustedSaveFails(s) ==
    /\ ticks[s].pc = "xsave"
    /\ ticks' = [ticks EXCEPT ![s] = IdleProc]
    /\ UNCHANGED <<now, transactions, activeTimeouts, graceTimers,
                   pollingIntervals, attempts, initiation, callbacks, timeouts>>
    /\ UNCHANGED b2cVars

(***************************************************************************)
(* sendB2CPayment                                                          *)
(***************************************************************************)
\* the document saved for an accepted disbursement
B2CTransaction(t) ==
    NewTransaction("B2C", Null, ConversationID, OriginatorConversationID,
                   NoTime, t)

\* a tracking document that leaves the status to the schema's default
B2CFailedTransaction_Pending(t) ==
    [NewTransaction("B2C", Null, Null, Null, NoTime, t)
        EXCEPT !.failureReason = "B2C payment failed"]

\* the document saved for tracking when the gateway answers with an error
B2CFailedTransaction(t) ==
    [NewTransaction("B2C", Null, Null, Null, NoTime, t)
        EXCEPT !.status = "failed", !.failureReason = "B2C payment failed"]

\* the request reaches the service, which calls the gateway
RequestB2C ==
    /\ b2cSend.pc = "idle"
    /\ now <= MaxInitiateAt
    /\ b2cSend' = [b2cSend EXCEPT !.pc = "gateway"]
    /\ UNCHANGED <<now, transactions>>
    /\ UNCHANGED stkVars
    /\ UNCHANGED b2cCallbacks

\* the gateway answers: accepted (ResponseCode "0"), another response code,
\* an error response, or a failed call
B2CResponse(outcome) ==
    /\ b2cSend.pc = "gateway"
    /\ b2cSend' =
          CASE Accepted(outcome) ->
                 [pc |-> "save", doc |-> B2CTransaction(now), result |-> outcome,
                  ended |-> "no"]
            [] outcome = "apierror" ->
                 [pc |-> "save", doc |-> B2CFailedTransaction(now), result |-> outcome,
                  ended |-> "no"]
            [] OTHER ->
                 [pc |-> "done", doc |-> NoDoc, result |-> outcome,
                  ended |-> IF outcome = "rejected" THEN "returned" ELSE "thrown"]
    /\ UNCHANGED <<now, transactions>>
    /\ UNCHANGED stkVars
    /\ UNCHANGED b2cCallbacks

\* transaction.save() completes; no timer is armed and no poller started
B2CSaved ==
    /\ b2cSend.pc = "save"
    /\ transactions' = Append(transactions, b2cSend.doc)
    /\ b2cSend' = [b2cSend EXCEPT !.pc = "done", !.doc = NoDoc,
                      !.ended = IF b2cSend.result = "apierror" THEN "thrown"
                                ELSE "returned"]
    /\ UNCHANGED now
    /\ UNCHANGED stkVars
    /\ UNCHANGED b2cCallbacks

\* transaction.save() rejects: the error is logged and the call ends as it
\* would have
B2CSaveFails ==
    /\ b2cSend.pc = "save"
    /\ b2cSend' = [b2cSend EXCEPT !.pc = "done", !.doc = NoDoc,
                      !.ended = IF b2cSend.result = "apierror" THEN "thrown"
                                ELSE "returned"]
    /\ UNCHANGED <<now, transactions>>
    /\ UNCHANGED stkVars
    /\ UNCHANGED b2cCallbacks

(***************************************************************************)
(* handleB2CResultCallback                                                 *)
(***************************************************************************)
\* Transaction.findOne({ conversationId }): index of the document, 0 if none
FindByConversation(conv) ==
    LET S == {i \in 1..Len(transactions) : transactions[i].conversationId = conv}
    IN IF S = {} THEN 0 ELSE CHOOSE i \in S : \A j \in S : i <= j

\* the document as handleB2CResultCallback changes it before saving
B2CResultUpdate(doc, payload, t) ==
    IF StrictEq(payload.ResultCode, 0)
    THEN [doc EXCEPT !.status = "success",
                     !.resultCode = CodeToString(payload.ResultCode),
                     !.resultDesc = payload.ResultDesc,
                     !.completedAt = t,
                     !.updatedAt = t]
    ELSE [doc EXCEPT !.status = "failed",
                     !.resultCode = CodeToString(payload.ResultCode),
                     !.resultDesc = payload.ResultDesc,
                     !.failureReason = payload.ResultDesc,
                     !.completedAt = t,
                     !.updatedAt = t]

\* a result webhook is delivered and acknowledged; the lookup is issued
B2CResultStart(b, payload) ==
    /\ b2cCallbacks[b].pc = "new"
    /\ \A v \in B2CDeliveries : v < b => b2cCallbacks[v].pc # "new"
    /\ (payload.ConversationID = ConversationID
        \/ payload.OriginatorConversationID = OriginatorConversationID) =>
           b2cSend.result = "accepted"
    /\ b2cCallbacks' = [b2cCallbacks EXCEPT ![b] =
                           [Acknowledge(b2cCallbacks[b]) EXCEPT !.pc = "find",
                                                                !.payload = payload]]
    /\ UNCHANGED <<now, transactions, b2cSend>>
    /\ UNCHANGED stkVars

\* findOne returns; the changes are made to the copy and save() is issued
B2CResultFind(b) ==
    /\ b2cCallbacks[b].pc = "find"
    /\ LET ix == FindByConversation(b2cCallbacks[b].payload.ConversationID)
       IN IF ix = 0
          THEN b2cCallbacks' = [b2cCallbacks EXCEPT ![b] = ReturnedB2C(b2cCallbacks[b])]
          ELSE b2cCallbacks' = [b2cCallbacks EXCEPT ![b].pc = "save", ![b].ix = ix,
                                                    ![b].snap = transactions[ix],
                                                    ![b].at = now]
    /\ UNCHANGED <<now, transactions, b2cSend>>
    /\ UNCHANGED stkVars

\* save() reaches the store
B2CResultSave(b) ==
    /\ b2cCallbacks[b].pc = "save"
    /\ LET c == b2cCallbacks[b]
       IN transactions' = Saved(c.ix, c.snap,
                                B2CResultUpdate(c.snap, c.payload, c.at), c.at)
    /\ b2cCallbacks' = [b2cCallbacks EXCEPT ![b] = ReturnedB2C(b2cCallbacks[b])]
    /\ UNCHANGED <<now, b2cSend>>
    /\ UNCHANGED stkVars

\* a body without Result: the TypeError raised after the acknowledgment is
\* caught and logged
B2CResultMalformed(b) ==
    /\ b2cCallbacks[b].pc = "new"
    /\ \A v \in B2CDeliveries : v < b => b2cCallbacks[v].pc # "new"
    /\ b2cCallbacks' = [b2cCallbacks EXCEPT ![b] =
                           ReturnedB2C(Acknowledge(b2cCallbacks[b]))]
    /\ UNCHANGED <<now, transactions, b2cSend>>
    /\ UNCHANGED stkVars

\* findOne or save() rejects: the error is caught and logged
B2CResultFails(b) ==
    /\ b2cCallbacks[b].pc \in {"find", "save"}
    /\ b2cCallbacks' = [b2cCallbacks EXCEPT ![b] = ReturnedB2C(b2cCallbacks[b])]
    /\ UNCHANGED <<now, transactions, b2cSend>>
    /\ UNCHANGED stkVars

(***************************************************************************)
(* handleB2CTimeoutCallback                                                *)
(***************************************************************************)
\* the bodies of the queue-timeout webhook: both identifiers, only the
\* originator's, neither
B2CTimeoutPayloads ==
    {B2CPayload(ConversationID, OriginatorConversationID, NoCode),
     B2CPayload(Null, OriginatorConversationID, NoCode),
     B2CPayload(Null, Null, NoCode)}

\* req.body.ConversationID || req.body.OriginatorConversationID
TimeoutConversationId(payload) ==
    IF payload.ConversationID # Null THEN payload.ConversationID
    ELSE payload.OriginatorConversationID

\* the document as handleB2CTimeoutCallback changes it before saving
B2CTimeoutUpdate(doc, t) ==
    [doc EXCEPT !.status = "cancelled",
                !.failureReason = "Timeout - No Response",
                !.completedAt = t,
                !.updatedAt = t]

\* a queue-timeout webhook is delivered and acknowledged; with an
\* identifier in the body the lookup is issued
B2CTimeoutStart(b, payload) ==
    /\ b2cCallbacks[b].pc = "new"
    /\ \A v \in B2CDeliveries : v < b => b2cCallbacks[v].pc # "new"
    /\ payload.ConversationID = ConversationID => b2cSend.result = "accepted"
    /\ b2cCallbacks' = [b2cCallbacks EXCEPT ![b] =
          IF TimeoutConversationId(payload) = Null
          THEN ReturnedB2C(Acknowledge(b2cCallbacks[b]))
          ELSE [Acknowledge(b2cCallbacks[b]) EXCEPT !.pc = "tfind",
                                                    !.payload = payload]]
    /\ UNCHANGED <<now, transactions, b2cSend>>
    /\ UNCHANGED stkVars

\* findOne returns; the changes are made to the copy and save() is issued
B2CTimeoutFind(b) ==
    /\ b2cCallbacks[b].pc = "tfind"
    /\ LET ix == FindByConversation(TimeoutConversationId(b2cCallbacks[b].payload))
       IN IF ix = 0
          THEN b2cCallbacks' = [b2cCallbacks EXCEPT ![b] = ReturnedB2C(b2cCallbacks[b])]
          ELSE b2cCallbacks' = [b2cCallbacks EXCEPT ![b].pc = "tsave", ![b].ix = ix,
                                                    ![b].snap = transactions[ix],
                                                    ![b].at = now]
    /\ UNCHANGED <<now, transactions, b2cSend>>
    /\ UNCHANGED stkVars

\* save() reaches the store
B2CTimeoutSave(b) ==
    /\ b2cCallbacks[b].pc = "tsave"
    /\ LET c == b2cCallbacks[b]
       IN transactions' = Saved(c.ix, c.snap, B2CTimeoutUpdate(c.snap, c.at), c.at)
    /\ b2cCallbacks' = [b2cCallbacks EXCEPT ![b] = ReturnedB2C(b2cCallbacks[b])]
    /\ UNCHANGED <<now, b2cSend>>
    /\ UNCHANGED stkVars

(***************************************************************************)
(* Transactions of earlier runs of the service, found in the store when it *)
(* starts: their timers and pollers ended with the process that set them.  *)
(***************************************************************************)
OldCheckoutId == "ws_0"

OldConversationID == "AG_0"

OldStk == NewTransaction("STK_PUSH", OldCheckoutId, Null, Null, TimeoutSeconds, 0)

OldB2C == [B2CTransaction(0) EXCEPT !.conversationId = OldConversationID]

\* a push payment and a disbursement in each status the handlers leave
OldTransactions ==
    {OldStk,
     CallbackUpdate(OldStk, StkPayload(OldCheckoutId, Num(0), <<>>), 0),
     CallbackUpdate(OldStk, StkPayload(OldCheckoutId, Num(1), <<>>), 0),
     CancelUpdate(OldStk, 0),
     OldB2C,
     B2CResultUpdate(OldB2C, B2CPayload(OldConversationID, OriginatorConversationID, Num(0)), 0),
     B2CResultUpdate(OldB2C, B2CPayload(OldConversationID, OriginatorConversationID, Num(1)), 0),
     B2CTimeoutUpdate(OldB2C, 0)}

(***************************************************************************)
(* transactionsController.retryTransaction                                 *)
(***************************************************************************)
\* a retry that refuses only settled payments
Retryable_NotSuccess(status) == status # "success"

\* transaction.status !== "failed" && transaction.status !== "cancelled"
\* throws; any other status goes on
Retryable(status) == status = "failed" \/ status = "cancelled"

\* the request arrives and findById is issued; ix = 0 is an id of no
\* stored transaction
RetryRequest(ix) ==
    /\ retry.pc = "idle"
    /\ now <= MaxInitiateAt
    /\ ix \in 0..Len(transactions)
    /\ retry' = [retry EXCEPT !.pc = "find", !.ix = ix]
    /\ UNCHANGED <<now, transactions, activeTimeouts, graceTimers, pollingIntervals,
                   attempts, queries, initiation, callbacks, ticks, timeouts, b2cSend,
                   b2cCallbacks, callbackRecords, repair, requests, auth, timer, sweep>>

\* findById returns: 404 without a document, 400 unless the status is
\* failed or cancelled, otherwise the service is called by transaction type
RetryFind ==
    /\ retry.pc = "find"
    /\ IF retry.ix = 0
       THEN /\ retry' = [retry EXCEPT !.pc = "done", !.result = 404]
            /\ UNCHANGED <<initiation, b2cSend>>
       ELSE IF ~Retryable(transactions[retry.ix].status)
       THEN /\ retry' = [retry EXCEPT !.pc = "done", !.result = 400]
            /\ UNCHANGED <<initiation, b2cSend>>
       ELSE IF transactions[retry.ix].transactionType = "STK_PUSH"
       THEN /\ initiation.pc = "idle"
            /\ initiation' = [initiation EXCEPT !.pc = "gateway"]
            /\ retry' = [retry EXCEPT !.pc = "await"]
            /\ UNCHANGED b2cSend
       ELSE /\ b2cSend.pc = "idle"
            /\ b2cSend' = [b2cSend EXCEPT !.pc = "gateway"]
            /\ retry' = [retry EXCEPT !.pc = "await"]
            /\ UNCHANGED initiation
    /\ UNCHANGED <<now, transactions, activeTimeouts, graceTimers, pollingIntervals,
                   attempts, queries, callbacks, ticks, timeouts, b2cCallbacks,
                   callbackRecords, repair, requests, auth, timer, sweep>>

\* the service call ends: what it returned is sent with 200, what it threw
\* goes to the error handler
RetryReturn ==
    /\ retry.pc = "await"
    /\ LET call == IF transactions[retry.ix].transactionType = "STK_PUSH"
                   THEN initiation ELSE b2cSend
       IN /\ call.pc = "done"
          /\ retry' = [retry EXCEPT !.pc = "done",
                          !.result = IF call.ended = "returned" THEN 200 ELSE 500]
    /\ UNCHANGED <<now, transactions, activeTimeouts, graceTimers, pollingIntervals,
                   attempts, queries, initiation, callbacks, ticks, timeouts, b2cSend,
                   b2cCallbacks, callbackRecords, repair, requests, auth, timer, sweep>>

(***************************************************************************)
(* transactionsController.fixIncorrectTransactions                         *)
(***************************************************************************)
\* Transaction.find({ status: "failed", resultCode: "0" }): the matching
\* documents in store order, each with the copy read
RECURSIVE FindIncorrect(_)
FindIncorrect(n) ==
    IF n = 0 THEN <<>>
    ELSE LET rest == FindIncorrect(n - 1)
         IN IF transactions[n].status = "failed" /\ transactions[n].resultCode = "0"
            THEN Append(rest, [ix |-> n, snap |-> transactions[n]])
            ELSE rest

\* the document as the repair changes it before saving
RepairUpdate(doc, t) ==
    [doc EXCEPT !.status = "success", !.failureReason = Null, !.updatedAt = t]

\* the request arrives and the scan is issued
RepairRequest ==
    /\ repair.pc = "idle"
    /\ repair' = [repair EXCEPT !.pc = "find"]
    /\ UNCHANGED <<now, transactions, activeTimeouts, graceTimers, pollingIntervals,
                   attempts, queries, initiation, callbacks, ticks, timeouts, b2cSend,
                   b2cCallbacks, callbackRecords, retry, requests, auth, timer, sweep>>

\* the scan returns: with nothing found the empty list is reported, else
\* the first document is changed and its save() issued
RepairFind ==
    /\ repair.pc = "find"
    /\ LET found == FindIncorrect(Len(transactions))
       IN repair' = IF found = <<>>
                    THEN [repair EXCEPT !.pc = "done", !.result = 200]
                    ELSE [repair EXCEPT !.pc = "save", !.scan = found,
                                        !.next = 1, !.at = now]
    /\ UNCHANGED <<now, transactions, activeTimeouts, graceTimers, pollingIntervals,
                   attempts, queries, initiation, callbacks, ticks, timeouts, b2cSend,
                   b2cCallbacks, callbackRecords, retry, requests, auth, timer, sweep>>

\* save() reaches the store; the document is listed and the loop goes on
\* to the next one or reports the list
RepairSave ==
    /\ repair.pc = "save"
    /\ LET cur == repair.scan[repair.next]
       IN /\ transactions' = Saved(cur.ix, cur.snap,
                                   RepairUpdate(cur.snap, repair.at), repair.at)
          /\ repair' = IF repair.next = Len(repair.scan)
                       THEN [repair EXCEPT !.pc = "done", !.result = 200,
                                           !.fixed = Append(repair.fixed, cur.ix)]
                       ELSE [repair EXCEPT !.next = repair.next + 1, !.at = now,
                                           !.fixed = Append(repair.fixed, cur.ix)]
    /\ UNCHANGED <<now, activeTimeouts, graceTimers, pollingIntervals,
                   attempts, queries, initiation, callbacks, ticks, timeouts, b2cSend,
                   b2cCallbacks, callbackRecords, retry, requests, auth, timer, sweep>>

\* save() rejects: the operation ends with ApiError(500)
RepairSaveFails ==
    /\ repair.pc = "save"
    /\ repair' = [repair EXCEPT !.pc = "done", !.result = 500]
    /\ UNCHANGED <<now, transactions, activeTimeouts, graceTimers, pollingIntervals,
                   attempts, queries, initiation, callbacks, ticks, timeouts, b2cSend,
                   b2cCallbacks, callbackRecords, retry, requests, auth, timer, sweep>>

(***************************************************************************)
(* getAccessToken                                                          *)
(***************************************************************************)
\* a caller asks for the token: the authentication request is sent
GetAccessToken ==
    /\ auth.pc = "idle"
    /\ auth.calls < MaxTokenCalls
    /\ auth' = [auth EXCEPT !.pc = "fetch", !.calls = auth.calls + 1,
                            !.requests = auth.requests + 1]
    /\ UNCHANGED <<now, transactions, activeTimeouts, graceTimers, pollingIntervals,
                   attempts, queries, initiation, callbacks, ticks, timeouts, b2cSend,
                   b2cCallbacks, callbackRecords, retry, repair, requests, timer, sweep>>

\* the provider answers with a new token, which is returned, or the request
\* fails and "Failed to authenticate with M-Pesa API" is thrown
GetAccessTokenResponse(ok) ==
    /\ auth.pc = "fetch"
    /\ auth' = IF ok
               THEN [auth EXCEPT !.pc = "idle", !.token = auth.requests,
                                 !.issuedAt = now]
               ELSE [auth EXCEPT !.pc = "idle"]
    /\ UNCHANGED <<now, transactions, activeTimeouts, graceTimers, pollingIntervals,
                   attempts, queries, initiation, callbacks, ticks, timeouts, b2cSend,
                   b2cCallbacks, callbackRecords, retry, repair, requests, timer, sweep>>

(***************************************************************************)
(* transactionsController.checkPendingTransactions                         *)
(***************************************************************************)
\* Transaction.find({ status: "pending", timeoutHandled: false,
\* timeoutAt: { $lt: now } }): the matching documents, each with its copy
TimedOut(t) ==
    LET Matches(i) == /\ transactions[i].status = "pending"
                      /\ ~transactions[i].timeoutHandled
                      /\ transactions[i].timeoutAt # NoTime
                      /\ transactions[i].timeoutAt < t
        found == SelectSeq([i \in 1..Len(transactions) |-> i], Matches)
    IN [k \in 1..Len(found) |-> [ix |-> found[k], snap |-> transactions[found[k]]]]

\* the for loop takes the next document of the scan, or the response is sent
SweepContinue(w) ==
    IF w.scan = <<>>
    THEN [w EXCEPT !.pc = "done", !.result = 200]
    ELSE LET d == Head(w.scan)
         IN [w EXCEPT !.scan = Tail(w.scan), !.ix = d.ix, !.snap = d.snap,
                      !.code = NoCode,
                      !.pc = IF /\ d.snap.transactionType = "STK_PUSH"
                                /\ d.snap.checkoutRequestID # Null
                             THEN "query" ELSE "cancel"]

\* the request arrives: now is read and the scan is issued
SweepRequest ==
    /\ sweep.pc = "idle"
    /\ sweep' = [sweep EXCEPT !.pc = "find", !.at = now]
    /\ UNCHANGED <<now, transactions, activeTimeouts, graceTimers,
                   pollingIntervals, attempts, initiation, callbacks, ticks,
                   timeouts, b2cSend, b2cCallbacks, callbackRecords, retry,
                   repair, requests, auth, queries, timer>>

\* the scan returns
SweepFind ==
    /\ sweep.pc = "find"
    /\ sweep' = SweepContinue([sweep EXCEPT !.scan = TimedOut(sweep.at)])
    /\ UNCHANGED <<now, transactions, activeTimeouts, graceTimers,
                   pollingIntervals, attempts, initiation, callbacks, ticks,
                   timeouts, b2cSend, b2cCallbacks, callbackRecords, retry,
                   repair, requests, auth, queries, timer>>

\* the gateway answers the status query of the sweep
SweepQueryResponse(outcome) ==
    /\ sweep.pc = "query"
    /\ sweep' = CASE outcome.kind = "definitive" ->
                      [sweep EXCEPT !.pc = "qfind", !.code = outcome.code]
                 [] /\ outcome.kind # "definitive"
                    /\ queryStkStatusCatch(outcome) = "returned" ->
                      [sweep EXCEPT !.pc = "refetch", !.code = GatewayError(outcome)]
                 [] OTHER ->
                      [sweep EXCEPT !.pc = "cancel", !.code = GatewayError(outcome)]
    /\ UNCHANGED <<now, transactions, activeTimeouts, graceTimers,
                   pollingIntervals, attempts, initiation, callbacks, ticks,
                   timeouts, b2cSend, b2cCallbacks, callbackRecords, retry,
                   repair, requests, auth, queries, timer>>

\* queryStkStatus: its findOne returns
SweepQueryFind ==
    /\ sweep.pc = "qfind"
    /\ LET ix == FindByCheckout(sweep.snap.checkoutRequestID)
       IN IF /\ ix # 0
             /\ transactions[ix].status = "pending"
             /\ QueryStatus(sweep.code, DescOf(sweep.code)).status # "pending"
          THEN sweep' = [sweep EXCEPT !.pc = "qsave", !.qix = ix,
                                      !.qsnap = transactions[ix], !.qat = now]
          ELSE sweep' = [sweep EXCEPT !.pc = "refetch"]
    /\ UNCHANGED <<now, transactions, activeTimeouts, graceTimers,
                   pollingIntervals, attempts, initiation, callbacks, ticks,
                   timeouts, b2cSend, b2cCallbacks, callbackRecords, retry,
                   repair, requests, auth, queries, timer>>

\* queryStkStatus: its save() reaches the store, then the timeout is cleared
SweepQuerySave ==
    /\ sweep.pc = "qsave"
    /\ transactions' = Saved(sweep.qix, sweep.qsnap,
                             QueryUpdate(sweep.qsnap, sweep.code,
                                         DescOf(sweep.code), sweep.qat),
                             sweep.qat)
    /\ activeTimeouts' = TimerClear(activeTimeouts, sweep.snap.checkoutRequestID)
    /\ sweep' = [sweep EXCEPT !.pc = "refetch", !.qix = 0, !.qsnap = NoDoc,
                              !.qat = NoTime]
    /\ UNCHANGED <<now, graceTimers, pollingIntervals, attempts, initiation,
                   callbacks, ticks, timeouts, b2cSend, b2cCallbacks,
                   callbackRecords, retry, repair, requests, auth, queries,
                   timer>>

\* the repairing write of the sweep
SweepFixUpdate(doc) ==
    [doc EXCEPT !.status = "success", !.failureReason = Null]

\* Transaction.findById returns: a transaction no longer pending is
\* reported, after its repair if it is failed with result code "0"; one
\* still pending is to be cancelled
SweepRefetch ==
    /\ sweep.pc = "refetch"
    /\ LET doc == transactions[sweep.ix]
       IN IF doc.status # "pending"
          THEN IF doc.status = "failed" /\ doc.resultCode = "0"
               THEN sweep' = [sweep EXCEPT !.pc = "fix", !.qsnap = doc, !.qat = now]
               ELSE sweep' = SweepContinue(
                                [sweep EXCEPT !.processed =
                                     Append(sweep.processed,
                                            [ix |-> sweep.ix, action |-> "status_query"])])
          ELSE sweep' = [sweep EXCEPT !.pc = "cancel"]
    /\ UNCHANGED <<now, transactions, activeTimeouts, graceTimers,
                   pollingIntervals, attempts, initiation, callbacks, ticks,
                   timeouts, b2cSend, b2cCallbacks, callbackRecords, retry,
                   repair, requests, auth, queries, timer>>

\* the save() of the repair reaches the store
SweepFixSave ==
    /\ sweep.pc = "fix"
    /\ transactions' = Saved(sweep.ix, sweep.qsnap, SweepFixUpdate(sweep.qsnap),
                             sweep.qat)
    /\ sweep' = SweepContinue(
                    [sweep EXCEPT !.qsnap = NoDoc, !.qat = NoTime,
                                  !.processed =
                                     Append(sweep.processed,
                                            [ix |-> sweep.ix, action |-> "status_query"])])
    /\ UNCHANGED <<now, activeTimeouts, graceTimers, pollingIntervals, attempts,
                   initiation, callbacks, ticks, timeouts, b2cSend,
                   b2cCallbacks, callbackRecords, retry, repair, requests,
                   auth, queries, timer>>

\* the cancelling write: the copy of the scan is changed and saved
SweepCancelled(stored, w) ==
    [stored EXCEPT ![w.ix] =
        SaveDoc(stored[w.ix], w.snap, CancelUpdate(w.snap, w.at), w.at)]

\* the cancelling save() reaches the store
SweepCancelSave ==
    /\ sweep.pc = "cancel"
    /\ transactions' = SweepCancelled(transactions, sweep)
    /\ sweep' = SweepContinue(
                    [sweep EXCEPT !.processed =
                         Append(sweep.processed,
                                [ix |-> sweep.ix, action |-> "timeout"])])
    /\ UNCHANGED <<now, activeTimeouts, graceTimers, pollingIntervals, attempts,
                   initiation, callbacks, ticks, timeouts, b2cSend,
                   b2cCallbacks, callbackRecords, retry, repair, requests,
                   auth, queries, timer>>

(***************************************************************************)
(* utils/timer.js                                                          *)
(***************************************************************************)
\* setTransactionTimeout(transactionId, callback, timeoutMs)
SetTransactionTimeout(id, delay) ==
    /\ timer.nextHandle <= MaxTimerSets
    /\ LET t == clearTransactionTimeout(timer, id)
           h == [handle |-> t.nextHandle, id |-> id, due |-> now + delay]
       IN timer' = [t EXCEPT !.pending = t.pending \cup {h},
                             !.active[id] = h.handle,
                             !.nextHandle = t.nextHandle + 1]
    /\ UNCHANGED <<now, transactions, activeTimeouts, graceTimers,
                   pollingIntervals, attempts, initiation, callbacks, ticks,
                   timeouts, b2cSend, b2cCallbacks, callbackRecords, retry,
                   repair, requests, auth, queries, sweep>>

\* clearTransactionTimeout(transactionId) called by a handler
ClearTransactionTimeout(id) ==
    /\ timer.nextHandle > 1
    /\ timer' = clearTransactionTimeout(timer, id)
    /\ UNCHANGED <<now, transactions, activeTimeouts, graceTimers,
                   pollingIntervals, attempts, initiation, callbacks, ticks,
                   timeouts, b2cSend, b2cCallbacks, callbackRecords, retry,
                   repair, requests, auth, queries, sweep>>

\* a timer of Node elapses: callback(transactionId), then
\* activeTimeouts.delete(transactionId)
TimeoutElapses(h) ==
    /\ h \in timer.pending
    /\ h.due <= now
    /\ timer' = [timer EXCEPT !.pending = timer.pending \ {h},
                              !.calls = Append(timer.calls, h),
                              !.active[h.id] = 0]
    /\ UNCHANGED <<now, transactions, activeTimeouts, graceTimers,
                   pollingIntervals, attempts, initiation, callbacks, ticks,
                   timeouts, b2cSend, b2cCallbacks, callbackRecords, retry,
                   repair, requests, auth, queries, sweep>>

\* time passes once every timer that is due has elapsed
TimerClock ==
    /\ now + IntervalSeconds <= MaxTimerClock
    /\ \A h \in timer.pending : h.due > now
    /\ now' = now + IntervalSeconds
    /\ UNCHANGED <<transactions, activeTimeouts, graceTimers, pollingIntervals,
                   attempts, initiation, callbacks, ticks, timeouts>>
    /\ UNCHANGED b2cVars

(***************************************************************************)
(* The clock.                                                              *)
(***************************************************************************)
\* the handlers suspended on a store or gateway call
Suspended ==
    {<<"initiation", 0>> : x \in {1} \cap (IF initiation.pc \in {"gateway", "save"} THEN {1} ELSE {})}
    \cup {<<"callback", w>> : w \in {v \in Deliveries : callbacks[v].pc \notin {"new", "done"}}}
    \cup {<<"tick", s>> : s \in {r \in TickSlots : ticks[r].pc # "idle"}}
    \cup {<<"timeout", id>> : id \in {k \in CheckoutIds : timeouts[k].pc \notin {"idle", "done"}}}
    \cup {<<"b2cSend", 0>> : x \in {1} \cap (IF b2cSend.pc \in {"gateway", "save"} THEN {1} ELSE {})}
    \cup {<<"retry", 0>> : x \in {1} \cap (IF retry.pc \in {"find", "await"} THEN {1} ELSE {})}
    \cup {<<"repair", 0>> : x \in {1} \cap (IF repair.pc \in {"find", "save"} THEN {1} ELSE {})}
    \cup {<<"auth", 0>> : x \in {1} \cap (IF auth.pc = "fetch" THEN {1} ELSE {})}
    \cup {<<"b2cCallback", b>> : b \in {v \in B2CDeliveries : b2cCallbacks[v].pc \notin {"new", "done"}}}
    \cup {<<"sweep", 0>> : x \in {1} \cap (IF sweep.pc \notin {"idle", "done"} THEN {1} ELSE {})}

NoTimerDue ==
    \A id \in CheckoutIds :
        /\ ~Due(activeTimeouts, id)
        /\ ~Due(graceTimers, id)
        /\ ~Due(pollingIntervals, id)

\* time passes: every timer that is due has fired and no handler is still
\* waiting for a store or gateway call
AdvanceClock ==
    /\ now + IntervalSeconds <= MaxClock
    /\ NoTimerDue
    /\ Suspended = {}
    /\ now' = now + IntervalSeconds
    /\ UNCHANGED <<transactions, activeTimeouts, graceTimers, pollingIntervals,
                   attempts, initiation, callbacks, ticks, timeouts>>
    /\ UNCHANGED b2cVars

\* time passes while the gateway has not yet answered the status query of
\* a tick: the call lasts longer than the polling interval
SlowClock ==
    /\ now + IntervalSeconds <= MaxClock
    /\ NoTimerDue
    /\ Suspended # {}
    /\ \A x \in Suspended : x[1] = "tick" /\ ticks[x[2]].pc = "query"
    /\ now' = now + IntervalSeconds
    /\ UNCHANGED <<transactions, activeTimeouts, graceTimers, pollingIntervals,
                   attempts, initiation, callbacks, ticks, timeouts>>
    /\ UNCHANGED b2cVars

(***************************************************************************)
(* Specifications.                                                         *)
(***************************************************************************)
\* the push-payment lifecycle with a store whose calls succeed
StkStep ==
    \/ RequestSTKPush
    \/ \E outcome \in {"accepted", "rejected", "error"}, id \in CheckoutIds :
           STKPushResponse(outcome, id)
    \/ STKPushSaved
    \/ \E id \in CheckoutIds : StartStatusPolling(id)
    \/ \E w \in Deliveries, payload \in StkPayloads : CallbackStart(w, payload)
    \/ \E w \in Deliveries : CallbackFind(w)
    \/ \E w \in Deliveries : CallbackSave(w)
    \/ \E id \in CheckoutIds, s \in TickSlots : TickFire(id, s)
    \/ \E s \in TickSlots : TickFind(s)
    \/ \E s \in TickSlots, outcome \in QueryOutcomes : TickQueryResponse(s, outcome)
    \/ \E s \in TickSlots : TickQueryFind(s)
    \/ \E s \in TickSlots : TickQuerySave(s)
    \/ \E s \in TickSlots : TickRefetch(s)
    \/ \E s \in TickSlots : TickExhaustedFind(s)
    \/ \E s \in TickSlots : TickExhaustedSave(s)
    \/ \E id \in CheckoutIds : TimeoutFire(id)
    \/ \E id \in CheckoutIds : TimeoutFind(id)
    \/ \E id \in CheckoutIds : TimeoutMarkSave(id)

\* With such a store the poller settles every transaction before the hard
\* timeout is due; the timeout meets a pending transaction only after the
\* cancelling save() of the poller has failed.
TimeoutPendingStep ==
    \/ \E s \in TickSlots : TickExhaustedSaveFails(s)
    \/ \E id \in CheckoutIds, outcome \in QueryOutcomes : TimeoutQueryResponse(id, outcome)
    \/ \E id \in CheckoutIds : TimeoutQueryFind(id)
    \/ \E id \in CheckoutIds : TimeoutQuerySave(id)
    \/ \E id \in CheckoutIds : TimeoutRefetch(id)
    \/ \E id \in CheckoutIds : TimeoutCancelSave(id)

B2CStep ==
    \/ RequestB2C
    \/ \E outcome \in {"accepted", "rejected", "apierror", "error"} : B2CResponse(outcome)
    \/ B2CSaved
    \/ \E b \in B2CDeliveries, payload \in B2CPayloads : B2CResultStart(b, payload)
    \/ \E b \in B2CDeliveries : B2CResultFind(b)
    \/ \E b \in B2CDeliveries : B2CResultSave(b)

Next == StkStep \/ AdvanceClock

Spec == Init /\ [][Next]_vars

NextFaulty == StkStep \/ TimeoutPendingStep \/ AdvanceClock

SpecFaulty == Init /\ [][NextFaulty]_vars

NextB2C == B2CStep \/ AdvanceClock

SpecB2C == Init /\ [][NextB2C]_vars

\* one delivery of each kind of webhook, any of which may be malformed or
\* meet a failing store, beside one push payment or one disbursement
NextWebhooks ==
    \/ b2cSend.pc = "idle" /\ RequestSTKPush
    \/ \E outcome \in {"accepted", "rejected"}, id \in CheckoutIds :
           STKPushResponse(outcome, id)
    \/ STKPushSaved
    \/ \E id \in CheckoutIds : StartStatusPolling(id)
    \/ \E payload \in StkPayloads : CallbackStart(1, payload)
    \/ CallbackMalformed(1)
    \/ CallbackFind(1)
    \/ CallbackFindFails(1)
    \/ CallbackSave(1)
    \/ CallbackSaveFails(1)
    \/ \E id \in CheckoutIds, s \in TickSlots : TickFire(id, s)
    \/ \E s \in TickSlots : TickFind(s)
    \/ \E s \in TickSlots : TickQueryResponse(s, [kind |-> "indeterminate", code |-> NoCode])
    \/ \E s \in TickSlots : TickRefetch(s)
    \/ \E s \in TickSlots : TickExhaustedFind(s)
    \/ \E s \in TickSlots : TickExhaustedSave(s)
    \/ \E id \in CheckoutIds : TimeoutFire(id)
    \/ \E id \in CheckoutIds : TimeoutFind(id)
    \/ \E id \in CheckoutIds : TimeoutMarkSave(id)
    \/ initiation.pc = "idle" /\ RequestB2C
    \/ \E outcome \in {"accepted", "rejected"} : B2CResponse(outcome)
    \/ B2CSaved
    \/ \E payload \in B2CPayloads : B2CResultStart(1, payload)
    \/ B2CResultMalformed(1)
    \/ B2CResultFind(1)
    \/ B2CResultSave(1)
    \/ B2CResultFails(1)
    \/ \E payload \in B2CTimeoutPayloads : B2CTimeoutStart(2, payload)
    \/ B2CTimeoutFind(2)
    \/ B2CTimeoutSave(2)
    \/ AdvanceClock

SpecWebhooks == Init /\ [][NextWebhooks]_vars

\* the webhooks of SpecWebhooks and one delivery to the first controller
NextLegacy ==
    \/ NextWebhooks
    \/ LegacyStkCallbackStart(2)
    \/ \E outcome \in LegacyOutcomes : LegacyStkCallbackReturn(2, outcome)

SpecLegacy == Init /\ [][NextLegacy]_vars

\* a retry request against a store that holds one transaction of an
\* earlier run; the only initiations are those the retry makes
InitRetry == \E d \in OldTransactions : InitWith(<<d>>)

NextRetry ==
    \/ \E ix \in 0..1 : RetryRequest(ix)
    \/ RetryFind
    \/ RetryReturn
    \/ \E outcome \in {"accepted", "rejected", "error"}, id \in CheckoutIds :
           STKPushResponse(outcome, id)
    \/ STKPushSaved
    \/ \E id \in CheckoutIds : StartStatusPolling(id)
    \/ \E id \in CheckoutIds, s \in TickSlots : TickFire(id, s)
    \/ \E s \in TickSlots : TickFind(s)
    \/ \E s \in TickSlots : TickQueryResponse(s, [kind |-> "indeterminate", code |-> NoCode])
    \/ \E s \in TickSlots : TickRefetch(s)
    \/ \E s \in TickSlots : TickExhaustedFind(s)
    \/ \E s \in TickSlots : TickExhaustedSave(s)
    \/ \E id \in CheckoutIds : TimeoutFire(id)
    \/ \E id \in CheckoutIds : TimeoutFind(id)
    \/ \E id \in CheckoutIds : TimeoutMarkSave(id)
    \/ \E outcome \in {"accepted", "rejected", "apierror", "error"} : B2CResponse(outcome)
    \/ B2CSaved
    \/ AdvanceClock

SpecRetry == InitRetry /\ [][NextRetry]_vars

\* the repair beside a push payment whose status queries may be answered
\* with the string "0"; the store may hold a transaction that an earlier
\* run left failed with the success code
OldIncorrect == QueryUpdate(OldStk, Str(0), DescOf(Str(0)), 0)

RepairOutcomes ==
    {[kind |-> "definitive", code |-> c] : c \in {Num(0), Str(0)}}
    \cup {[kind |-> "indeterminate", code |-> NoCode]}

InitRepair == \E stored \in {<<>>, <<OldIncorrect>>} : InitWith(stored)

NextRepair ==
    \/ RepairRequest
    \/ RepairFind
    \/ RepairSave
    \/ RepairSaveFails
    \/ RequestSTKPush
    \/ \E id \in CheckoutIds : STKPushResponse("accepted", id)
    \/ STKPushSaved
    \/ \E id \in CheckoutIds : StartStatusPolling(id)
    \/ \E payload \in StkPayloads : CallbackStart(1, payload)
    \/ CallbackFind(1)
    \/ CallbackSave(1)
    \/ \E id \in CheckoutIds, s \in TickSlots : TickFire(id, s)
    \/ \E s \in TickSlots : TickFind(s)
    \/ \E s \in TickSlots, outcome \in RepairOutcomes : TickQueryResponse(s, outcome)
    \/ \E s \in TickSlots : TickQueryFind(s)
    \/ \E s \in TickSlots : TickQuerySave(s)
    \/ \E s \in TickSlots : TickRefetch(s)
    \/ \E s \in TickSlots : TickExhaustedFind(s)
    \/ \E s \in TickSlots : TickExhaustedSave(s)
    \/ \E id \in CheckoutIds : TimeoutFire(id)
    \/ \E id \in CheckoutIds : TimeoutFind(id)
    \/ \E id \in CheckoutIds : TimeoutMarkSave(id)
    \/ AdvanceClock

SpecRepair == InitRepair /\ [][NextRepair]_vars

\* the two initiations with every answer of the gateway and a store that
\* may reject the save of the new transaction
NextInitiation ==
    \/ RequestSTKPush
    \/ \E outcome \in {"accepted", "rejected", "error"}, id \in CheckoutIds :
           STKPushResponse(outcome, id)
    \/ STKPushSaved
    \/ STKPushSaveFails
    \/ \E id \in CheckoutIds : StartStatusPolling(id)
    \/ \E id \in CheckoutIds, s \in TickSlots : TickFire(id, s)
    \/ \E s \in TickSlots : TickFind(s)
    \/ \E s \in TickSlots : TickQueryResponse(s, [kind |-> "indeterminate", code |-> NoCode])
    \/ \E s \in TickSlots : TickRefetch(s)
    \/ \E s \in TickSlots : TickExhaustedFind(s)
    \/ \E s \in TickSlots : TickExhaustedSave(s)
    \/ \E id \in CheckoutIds : TimeoutFire(id)
    \/ \E id \in CheckoutIds : TimeoutFind(id)
    \/ \E id \in CheckoutIds : TimeoutMarkSave(id)
    \/ RequestB2C
    \/ \E outcome \in {"accepted", "rejected", "apierror", "error"} : B2CResponse(outcome)
    \/ B2CSaved
    \/ B2CSaveFails
    \/ AdvanceClock

SpecInitiation == Init /\ [][NextInitiation]_vars

\* one push payment and one webhook request, whose signature header is the
\* provider's or not
NextSigned ==
    \/ RequestSTKPush
    \/ \E id \in CheckoutIds : STKPushResponse("accepted", id)
    \/ STKPushSaved
    \/ \E id \in CheckoutIds : StartStatusPolling(id)
    \/ \E payload \in StkPayloads :
           \E signature \in SignaturesFor(payload) :
              WebhookReceived(1, payload, signature)
    \/ requests[1].received /\ CallbackStart(1, requests[1].body)
    \/ CallbackFind(1)
    \/ CallbackSave(1)
    \/ \E id \in CheckoutIds, s \in TickSlots : TickFire(id, s)
    \/ \E s \in TickSlots : TickFind(s)
    \/ \E s \in TickSlots : TickQueryResponse(s, [kind |-> "indeterminate", code |-> NoCode])
    \/ \E s \in TickSlots : TickRefetch(s)
    \/ \E s \in TickSlots : TickExhaustedFind(s)
    \/ \E s \in TickSlots : TickExhaustedSave(s)
    \/ \E id \in CheckoutIds : TimeoutFire(id)
    \/ \E id \in CheckoutIds : TimeoutFind(id)
    \/ \E id \in CheckoutIds : TimeoutMarkSave(id)
    \/ AdvanceClock

SpecSigned == Init /\ [][NextSigned]_vars

\* the calls of getAccessToken as time passes
NextToken ==
    \/ GetAccessToken
    \/ \E ok \in BOOLEAN : GetAccessTokenResponse(ok)
    \/ AdvanceClock

SpecToken == Init /\ [][NextToken]_vars

\* a gateway that fails every status query with a transient error (network,
\* 5xx) while webhooks may still arrive
NextTransient ==
    \/ RequestSTKPush
    \/ \E id \in CheckoutIds : STKPushResponse("accepted", id)
    \/ STKPushSaved
    \/ \E id \in CheckoutIds : StartStatusPolling(id)
    \/ \E w \in Deliveries, payload \in StkPayloads : CallbackStart(w, payload)
    \/ \E w \in Deliveries : CallbackFind(w)
    \/ \E w \in Deliveries : CallbackSave(w)
    \/ \E id \in CheckoutIds, s \in TickSlots : TickFire(id, s)
    \/ \E s \in TickSlots : TickFind(s)
    \/ \E s \in TickSlots : TickQueryResponse(s, [kind |-> "error", code |-> NoCode])
    \/ \E s \in TickSlots : TickExhaustedFind(s)
    \/ \E s \in TickSlots : TickExhaustedSave(s)
    \/ \E id \in CheckoutIds : TimeoutFire(id)
    \/ \E id \in CheckoutIds : TimeoutFind(id)
    \/ \E id \in CheckoutIds : TimeoutMarkSave(id)
    \/ AdvanceClock

SpecTransient == Init /\ [][NextTransient]_vars

\* a gateway that is slow to answer the status queries of the poller and
\* answers them "still processing" or with an error
SlowOutcomes ==
    {[kind |-> "indeterminate", code |-> NoCode], [kind |-> "error", code |-> NoCode]}

NextSlow ==
    \/ RequestSTKPush
    \/ \E id \in CheckoutIds : STKPushResponse("accepted", id)
    \/ STKPushSaved
    \/ \E id \in CheckoutIds : StartStatusPolling(id)
    \/ \E id \in CheckoutIds, s \in TickSlots : TickFire(id, s)
    \/ \E s \in TickSlots : TickFind(s)
    \/ \E s \in TickSlots, outcome \in SlowOutcomes : TickQueryResponse(s, outcome)
    \/ \E s \in TickSlots : TickRefetch(s)
    \/ \E s \in TickSlots : TickExhaustedFind(s)
    \/ \E s \in TickSlots : TickExhaustedSave(s)
    \/ \E id \in CheckoutIds : TimeoutFire(id)
    \/ \E id \in CheckoutIds : TimeoutFind(id)
    \/ \E id \in CheckoutIds : TimeoutMarkSave(id)
    \/ AdvanceClock
    \/ SlowClock

SpecSlow == Init /\ [][NextSlow]_vars

\* timer.js under any order of calls of its callers
NextTimer ==
    \/ \E id \in TimerIds, delay \in TimerDelays : SetTransactionTimeout(id, delay)
    \/ \E id \in TimerIds : ClearTransactionTimeout(id)
    \/ \E h \in timer.pending : TimeoutElapses(h)
    \/ TimerClock

SpecTimer == Init /\ [][NextTimer]_vars

\* the sweep after a restart: the store holds a push payment of the earlier
\* process, no timer of which is left, and the provider may still deliver
\* its webhook
SweepPayloads ==
    {StkPayload(OldCheckoutId, c, <<>>) : c \in {Num(0), Num(1032)}}

InitSweep == InitWith(<<OldStk>>)

NextSweep ==
    \/ SweepRequest
    \/ SweepFind
    \/ \E outcome \in QueryOutcomes : SweepQueryResponse(outcome)
    \/ SweepQueryFind
    \/ SweepQuerySave
    \/ SweepRefetch
    \/ SweepFixSave
    \/ SweepCancelSave
    \/ \E w \in Deliveries, payload \in SweepPayloads : CallbackStart(w, payload)
    \/ \E w \in Deliveries : CallbackFind(w)
    \/ \E w \in Deliveries : CallbackSave(w)
    \/ AdvanceClock

SpecSweep == InitSweep /\ [][NextSweep]_vars

\* a retry beside a store that may reject the save() of the new transaction
NextRetryFaulty ==
    \/ NextRetry
    \/ STKPushSaveFails
    \/ B2CSaveFails

SpecRetryFaulty == InitRetry /\ [][NextRetryFaulty]_vars

\* the provider result codes of the mapping tables, one code outside them,
\* and the code the query path takes as still in progress
ResultCodes == {Num(0), Num(1), Num(17), Num(1001), Num(1019), Num(1025),
                Num(1032), Num(1037)}

CodePayloads ==
    {StkPayload(id, c, IF StrictEq(c, 0) THEN items ELSE <<>>) :
        id \in CheckoutIds, c \in ResultCodes, items \in ItemLists}

CodeOutcomes ==
    {[kind |-> "definitive", code |-> c] : c \in ResultCodes}
    \cup {[kind |-> "indeterminate", code |-> NoCode]}

\* the push-payment lifecycle with one webhook delivery and every result
\* code of the two mapping tables
NextCodes ==
    \/ RequestSTKPush
    \/ \E id \in CheckoutIds : STKPushResponse("accepted", id)
    \/ STKPushSaved
    \/ \E id \in CheckoutIds : StartStatusPolling(id)
    \/ \E payload \in CodePayloads : CallbackStart(1, payload)
    \/ CallbackFind(1)
    \/ CallbackSave(1)
    \/ \E id \in CheckoutIds, s \in TickSlots : TickFire(id, s)
    \/ \E s \in TickSlots : TickFind(s)
    \/ \E s \in TickSlots, outcome \in CodeOutcomes : TickQueryResponse(s, outcome)
    \/ \E s \in TickSlots : TickQueryFind(s)
    \/ \E s \in TickSlots : TickQuerySave(s)
    \/ \E s \in TickSlots : TickRefetch(s)
    \/ \E s \in TickSlots : TickExhaustedFind(s)
    \/ \E s \in TickSlots : TickExhaustedSave(s)
    \/ \E id \in CheckoutIds : TimeoutFire(id)
    \/ \E id \in CheckoutIds : TimeoutFind(id)
    \/ \E id \in CheckoutIds : TimeoutMarkSave(id)
    \/ AdvanceClock

SpecCodes == Init /\ [][NextCodes]_vars

(***************************************************************************)
(* Properties.                                                             *)
(***************************************************************************)
Docs == 1..Len(transactions)

NoTimerArmed ==
    \A id \in CheckoutIds :
        /\ ~Armed(activeTimeouts, id)
        /\ ~Armed(graceTimers, id)
        /\ ~Armed(pollingIntervals, id)

\* C1: a transaction that has a terminal status keeps that status in every
\* step, whichever handler takes the step.
C1_TerminalStatusIsFinal ==
    [][\A i \in Docs :
          transactions[i].status \in Terminal =>
              transactions'[i].status = transactions[i].status]_vars

\* C2: in every reachable state a stored transaction whose resultCode is
\* "0" has status success.
C2_SuccessCodeImpliesSuccess ==
    \A i \in Docs :
        transactions[i].resultCode = "0" => transactions[i].status = "success"

\* the stored transaction is exactly what a first delivery of the payload
\* held by delivery w left behind
AlreadyApplied(w) ==
    LET c == callbacks[w]
        d == transactions[c.ix]
    IN /\ d.status \in Terminal
       /\ c.snap = d
       /\ d = CallbackUpdate(d, c.payload, d.completedAt)

\* C3: the save of a webhook whose payload has already been applied to the
\* transaction changes no field of any stored transaction.
C3_ReplayChangesNothing ==
    [][\A w \in Deliveries :
          (/\ callbacks[w].pc = "save"
           /\ callbacks'[w].pc = "done"
           /\ AlreadyApplied(w)) => transactions' = transactions]_vars

\* C4: a poll tick whose read finds the transaction in a terminal status
\* ends there: no status query is issued, the poller is stopped and the
\* stored transactions are left as they are.
C4_TickOnTerminalIsNoOp ==
    [][\A s \in TickSlots :
          LET p == ticks[s]
              ix == FindByCheckout(p.id)
          IN (/\ p.pc = "find"
              /\ ticks'[s].pc # "find"
              /\ ix # 0
              /\ transactions[ix].status \in Terminal) =>
                 /\ ticks'[s].pc = "idle"
                 /\ ~Armed(pollingIntervals', p.id)
                 /\ transactions' = transactions]_vars

\* a tick has fired and is about to read a transaction already terminal
C4_Witness ==
    \E s \in TickSlots :
        /\ ticks[s].pc = "find"
        /\ FindByCheckout(ticks[s].id) # 0
        /\ transactions[FindByCheckout(ticks[s].id)].status \in Terminal

\* C5: a push payment that no webhook and no status query has given a
\* result code is cancelled once the clock is past its hard timeout plus
\* one poll interval.
C5_CancelledByHardTimeout ==
    \A i \in Docs :
        (/\ transactions[i].transactionType = "STK_PUSH"
         /\ transactions[i].resultCode = Null
         /\ now > transactions[i].timeoutAt + IntervalSeconds) =>
            transactions[i].status = "cancelled"

\* past the hard timeout plus one interval, a transaction cancelled for
\* want of any response
C5_Witness ==
    \E i \in Docs :
        /\ transactions[i].transactionType = "STK_PUSH"
        /\ transactions[i].resultCode = Null
        /\ now > transactions[i].timeoutAt + IntervalSeconds
        /\ transactions[i].status = "cancelled"
        /\ transactions[i].failureReason = "Timeout - No Response"

\* C6: once the clock is past the hard timeout plus one interval, with no
\* webhook delivered, no timer armed and no handler under way, no
\* transaction is pending.
C6_NothingLeftPending ==
    (/\ now > TimeoutSeconds + IntervalSeconds
     /\ NoTimerArmed
     /\ Suspended = {}
     /\ \A w \in Deliveries : callbacks[w].pc = "new"
     /\ \A b \in B2CDeliveries : b2cCallbacks[b].pc = "new") =>
        \A i \in Docs : transactions[i].status \in Terminal

\* the Value of the last item named MpesaReceiptNumber that has one
LastReceipt(items) ==
    LET S == {i \in 1..Len(items) :
                 items[i].Name = "MpesaReceiptNumber" /\ items[i].Value # Undefined}
    IN IF S = {} THEN Null
       ELSE items[CHOOSE i \in S : \A j \in S : j <= i].Value

\* C7: the save of a webhook with result code 0 that found the transaction
\* pending leaves it with status success and with mpesaReceiptNumber the
\* Value of the metadata item named MpesaReceiptNumber.
C7_SuccessWebhookSetsReceipt ==
    [][\A w \in Deliveries :
          LET c == callbacks[w]
          IN (/\ c.pc = "save"
              /\ callbacks'[w].pc = "done"
              /\ StrictEq(c.payload.ResultCode, 0)
              /\ c.snap.status = "pending"
              /\ transactions[c.ix].status = "pending") =>
                 /\ transactions'[c.ix].status = "success"
                 /\ transactions'[c.ix].mpesaReceiptNumber =
                        LastReceipt(c.payload.Items)]_vars

\* a transaction resolved by a successful webhook, its receipt stored
C7_Witness ==
    \E i \in Docs :
        /\ transactions[i].status = "success"
        /\ transactions[i].completedAt # NoTime
        /\ transactions[i].mpesaReceiptNumber = "ABC123"

\* the poller of id has used up its budget and its last tick has ended
PollerExhausted(id) ==
    /\ attempts[id] >= MaxAttempts
    /\ \A s \in TickSlots : ticks[s].pc = "idle"

\* a transaction left without a result code is cancelled with the given
\* reason once its poller is exhausted, and not before: the write is made
\* at the last tick of the budget
PollExhaustionCancels(reason) ==
    \A id \in CheckoutIds :
        LET ix == FindByCheckout(id)
            d == transactions[ix]
        IN (ix # 0 /\ d.resultCode = Null) =>
              /\ PollerExhausted(id) =>
                    /\ d.status = "cancelled"
                    /\ d.failureReason = reason
                    /\ d.timeoutHandled
              /\ d.status = "cancelled" =>
                    /\ attempts[id] >= MaxAttempts
                    /\ timeouts[id].pc # "done" =>
                          d.updatedAt = d.createdAt + GraceSeconds
                                            + MaxAttempts * IntervalSeconds

\* C8 (as amended): when the poller exhausts its budget of MaxAttempts
\* ticks without any result, the transaction is cancelled at the last tick
\* with reason "Timeout - No Response".
C8_ExhaustionCancelsTimeoutNoResponse ==
    PollExhaustionCancels("Timeout - No Response")

\* C8 (as stated): the same, with reason "no response within timeout
\* window".
C8_ExhaustionCancelsNoResponseWithinWindow ==
    PollExhaustionCancels("no response within timeout window")

\* a transaction cancelled by the last tick of the poller
C8_Witness ==
    \E id \in CheckoutIds :
        /\ FindByCheckout(id) # 0
        /\ PollerExhausted(id)
        /\ attempts[id] = MaxAttempts
        /\ transactions[FindByCheckout(id)].resultCode = Null
        /\ transactions[FindByCheckout(id)].status = "cancelled"
        /\ transactions[FindByCheckout(id)].failureReason = "Timeout - No Response"

\* C9: a hard timeout that finds the transaction in a terminal status
\* issues no status query, and its save leaves status, resultCode,
\* resultDesc, failureReason and updatedAt as they are.
C9_TimeoutOnTerminalIsNoOp ==
    [][\A id \in CheckoutIds :
          LET p == timeouts[id]
              ix == FindByCheckout(id)
          IN /\ (/\ p.pc = "find"
                 /\ ix # 0
                 /\ transactions[ix].status \in Terminal) =>
                    timeouts'[id].pc # "query"
             /\ (p.pc = "mark" /\ timeouts'[id].pc = "done") =>
                    /\ transactions'[p.ix].status = transactions[p.ix].status
                    /\ transactions'[p.ix].resultCode = transactions[p.ix].resultCode
                    /\ transactions'[p.ix].resultDesc = transactions[p.ix].resultDesc
                    /\ transactions'[p.ix].failureReason =
                           transactions[p.ix].failureReason
                    /\ transactions'[p.ix].updatedAt = transactions[p.ix].updatedAt]_vars

\* the payload names the disbursement by either of its two identifiers
MatchesEither(doc, payload) ==
    \/ doc.conversationId = payload.ConversationID
    \/ doc.originatorConversationId = payload.OriginatorConversationID

\* C10: when the handler of a result webhook returns, every pending
\* disbursement whose conversationId or originatorConversationId is that of
\* the payload is resolved: success for result code 0, otherwise failed
\* with the provider's description.
C10_ResultMatchesEitherIdentifier ==
    [][\A b \in B2CDeliveries :
          LET c == b2cCallbacks[b]
          IN (c.pc \in {"find", "save"} /\ b2cCallbacks'[b].pc = "done") =>
                \A i \in Docs :
                    (/\ transactions[i].transactionType = "B2C"
                     /\ transactions[i].status = "pending"
                     /\ MatchesEither(transactions[i], c.payload)) =>
                        IF StrictEq(c.payload.ResultCode, 0)
                        THEN transactions'[i].status = "success"
                        ELSE /\ transactions'[i].status = "failed"
                             /\ transactions'[i].failureReason =
                                    c.payload.ResultDesc]_vars

\* the status the fixed table gives for a stored result code
TableStatus(rc) ==
    IF rc = "0" THEN "success"
    ELSE IF rc \in {"1032", "1037"} THEN "cancelled"
    ELSE "failed"

\* C11: every stored result, whichever path wrote it, follows the fixed
\* table: the status is the table's, codes 1001, 1019 and 1025 carry a
\* specific reason and not the provider's description, and every other
\* failing code carries the provider's description.
C11_BothPathsFollowTable ==
    \A i \in Docs :
        LET d == transactions[i]
        IN d.resultCode # Null =>
              /\ d.status = TableStatus(d.resultCode)
              /\ d.resultCode \in {"1001", "1019", "1025"} =>
                     d.failureReason \notin {Null, d.resultDesc}
              /\ (d.status = "failed"
                  /\ d.resultCode \notin {"1001", "1019", "1025"}) =>
                     d.failureReason = d.resultDesc

\* the webhook deliveries whose handler has been entered
Entered ==
    {callbacks[w] : w \in {v \in Deliveries : callbacks[v].pc # "new"}}
    \cup {b2cCallbacks[b] : b \in {v \in B2CDeliveries : b2cCallbacks[v].pc # "new"}}

\* C12: every inbound webhook is answered 200 before its processing starts:
\* a delivery whose handler is processing or has returned, whatever went
\* wrong in it, has been answered, and with 200
C12_AcknowledgedBeforeProcessing ==
    \A c \in Entered : c.ack = 200

C14_RetryOnlyFailedOrCancelled ==
    [][(retry.pc = "find" /\ retry' # retry /\ retry.ix # 0) =>
          LET doc == transactions[retry.ix]
          IN IF doc.status \in {"failed", "cancelled"}
             THEN IF doc.transactionType = "STK_PUSH"
                  THEN initiation'.pc = "gateway" /\ b2cSend' = b2cSend
                  ELSE b2cSend'.pc = "gateway" /\ initiation' = initiation
             ELSE /\ retry'.pc = "done"
                  /\ retry'.result = 400
                  /\ initiation' = initiation
                  /\ b2cSend' = b2cSend]_vars

\* a retry of a pending transaction has been rejected with no gateway call
C14_Witness ==
    /\ retry.pc = "done"
    /\ retry.result = 400
    /\ retry.ix # 0
    /\ transactions[retry.ix].status = "pending"
    /\ initiation.pc = "idle"
    /\ b2cSend.pc = "idle"

\* failed with the success result code
Incorrect(doc) == doc.status = "failed" /\ doc.resultCode = "0"

\* C15: when the repair completes without error no transaction is failed
\* with the success result code, and every transaction the scan found so
\* is now successful and listed in the reported corrections.
C15_RepairLeavesNoneIncorrect ==
    [][(repair.pc # "done" /\ repair'.pc = "done" /\ repair'.result = 200) =>
          /\ \A i \in 1..Len(transactions') : ~Incorrect(transactions'[i])
          /\ \A k \in 1..Len(repair'.scan) :
                /\ transactions'[repair'.scan[k].ix].status = "success"
                /\ \E j \in 1..Len(repair'.fixed) :
                       repair'.fixed[j] = repair'.scan[k].ix]_vars

\* the number of webhook deliveries whose handler is at one of the places
WebhooksAt(places) ==
    Cardinality({w \in Deliveries : callbacks[w].pc \in places})
    + Cardinality({b \in B2CDeliveries : b2cCallbacks[b].pc \in places})

\* C16: every inbound webhook produces exactly one Callback record: the
\* collection holds a record for each webhook whose handler has returned
\* and no more records than webhooks received.
C16_OneCallbackRecordPerWebhook ==
    /\ WebhooksAt({"done"}) <= Len(callbackRecords)
    /\ Len(callbackRecords) <= WebhooksAt({"find", "save", "tfind", "tsave", "legacy", "done"})

\* C17: timeoutHandled is false in a transaction just created, true in
\* every transaction of terminal status, and once true stays true.
C17_TimeoutHandledTracksTerminal ==
    /\ [](\A i \in Docs :
             transactions[i].status \in Terminal => transactions[i].timeoutHandled)
    /\ [][\A i \in 1..Len(transactions') :
             IF i > Len(transactions)
             THEN ~transactions'[i].timeoutHandled
             ELSE transactions[i].timeoutHandled => transactions'[i].timeoutHandled]_vars

\* C18: when initiateSTKPush returns an accepted response a pending
\* transaction with the returned correlation ID is in the store, the timeout
\* of that ID is armed and its poller is not yet running; the poller is
\* started only when the grace delay set at that moment has passed.
C18_AcceptedInitiationIsTracked ==
    [][/\ (/\ initiation.pc # "done"
            /\ initiation'.pc = "done"
            /\ initiation'.result = "accepted"
            /\ initiation'.ended = "returned") =>
              /\ \E i \in 1..Len(transactions') :
                     /\ transactions'[i].checkoutRequestID = initiation'.id
                     /\ transactions'[i].status = "pending"
              /\ Armed(activeTimeouts', initiation'.id)
              /\ ~Armed(pollingIntervals', initiation'.id)
              /\ graceTimers'[initiation'.id] = now + GraceSeconds
       /\ \A id \in CheckoutIds :
            (~Armed(pollingIntervals, id) /\ Armed(pollingIntervals', id)) =>
               Armed(graceTimers, id) /\ graceTimers[id] <= now]_vars

\* no timeout, grace delay or poller is set for any correlation ID
NothingArmed ==
    \A id \in CheckoutIds :
        /\ ~Armed(activeTimeouts, id)
        /\ ~Armed(graceTimers, id)
        /\ ~Armed(pollingIntervals, id)

\* the stored transactions of a type
OfType(type) == {i \in Docs : transactions[i].transactionType = type}

\* C19: an initiation the gateway answers with a non-zero response code
\* ends by returning that response, not by throwing; it creates no
\* transaction and sets neither a timeout nor a poller.
C19_RejectionReturnedWithoutEffect ==
    /\ (initiation.pc = "done" /\ initiation.result = "rejected") =>
          /\ initiation.ended = "returned"
          /\ OfType("STK_PUSH") = {}
          /\ NothingArmed
    /\ (b2cSend.pc = "done" /\ b2cSend.result = "rejected") =>
          /\ b2cSend.ended = "returned"
          /\ OfType("B2C") = {}

\* a push payment and a disbursement have both been rejected by the gateway
C19_Witness ==
    /\ initiation.pc = "done" /\ initiation.result = "rejected"
    /\ b2cSend.pc = "done" /\ b2cSend.result = "rejected"

\* C20: an initiation whose gateway call fails ends by throwing; it leaves
\* no pending transaction and sets neither a timeout nor a poller.
C20_GatewayFailureSurfaced ==
    /\ (initiation.pc = "done" /\ initiation.result = "error") =>
          /\ initiation.ended = "thrown"
          /\ OfType("STK_PUSH") = {}
          /\ NothingArmed
    /\ (b2cSend.pc = "done" /\ b2cSend.result \in {"error", "apierror"}) =>
          /\ b2cSend.ended = "thrown"
          /\ \A i \in OfType("B2C") : transactions[i].status # "pending"

\* the gateway answered a disbursement with an error response, the failed
\* transaction kept for tracking is stored, and a push payment's call failed
C20_Witness ==
    /\ b2cSend.pc = "done" /\ b2cSend.result = "apierror"
    /\ OfType("B2C") # {}
    /\ initiation.pc = "done" /\ initiation.result = "error"

\* C21: a webhook changes transaction state only if its signature has been
\* verified: the write of a webhook handler whose request carries a
\* signature that does not verify leaves every transaction unchanged.
C21_UnverifiedWebhookChangesNothing ==
    [][\A w \in Deliveries :
          (/\ callbacks[w].pc = "save"
           /\ callbacks'[w].pc = "done"
           /\ ~verifySignature(requests[w].body, requests[w].signature, WebhookSecret)) =>
              transactions' = transactions]_vars

\* a token has been returned and is not yet expired
TokenFresh == auth.token # 0 /\ now < auth.issuedAt + TokenLifetime

\* C22: while a token fetched before has not expired, a call of
\* getAccessToken sends no authentication request to the provider.
C22_FreshTokenIsReused ==
    [][(auth'.calls = auth.calls + 1 /\ TokenFresh) =>
          auth'.requests = auth.requests]_vars

\* C23: when the transaction is resolved while the timeout handler is
\* suspended between its read of the pending transaction and its write,
\* the handler's write leaves the resolved status in place.
C23_TimeoutWriteKeepsResolution ==
    [][\A id \in CheckoutIds :
          LET p == timeouts[id]
          IN (/\ p.pc = "cancel"
              /\ timeouts'[id].pc = "done"
              /\ p.snap.status = "pending"
              /\ transactions[p.ix].status \in Terminal) =>
                 transactions'[p.ix].status = transactions[p.ix].status]_vars

\* the correlation IDs whose stored transaction has a terminal status
Resolved ==
    {id \in CheckoutIds :
        \E i \in Docs : /\ transactions[i].checkoutRequestID = id
                         /\ transactions[i].status \in Terminal}

\* C24: once a terminal status has been written for a correlation ID, by
\* whichever path, no timeout is armed for that ID.
C24_NoTimeoutAfterTerminalWrite ==
    \A id \in Resolved : ~Armed(activeTimeouts, id)

\* a poll tick of the ID is under way
TickUnderWay(id) == \E s \in TickSlots : ticks[s].pc # "idle" /\ ticks[s].id = id

\* C25: once a transaction has a terminal status no poller interval is
\* active for its correlation ID, the tick that is just writing it apart,
\* and no poller is started for it afterwards.
C25_NoPollerAfterTerminalWrite ==
    /\ [](\A id \in Resolved : Armed(pollingIntervals, id) => TickUnderWay(id))
    /\ [][\A id \in Resolved :
             ~Armed(pollingIntervals, id) => ~Armed(pollingIntervals', id)]_vars

\* C26: a disbursement in a terminal status keeps that status when a
\* further result webhook or timeout webhook is handled for it.
C26_TerminalDisbursementKeepsStatus ==
    [][\A b \in B2CDeliveries :
          (b2cCallbacks[b].pc \in {"save", "tsave"} /\ b2cCallbacks'[b].pc = "done") =>
             \A i \in OfType("B2C") :
                transactions[i].status \in Terminal =>
                   transactions'[i].status = transactions[i].status]_vars

C28_TransientErrorKeepsPolling ==
    [][\A s \in TickSlots :
          LET p == ticks[s]
              q == ticks'[s]
          IN /\ (/\ p.pc = "query" /\ q.pc \notin {"query", "qfind", "refetch"}
                 /\ attempts[p.id] < MaxAttempts) =>
                    /\ transactions' = transactions
                    /\ q.pc = "idle"
                    /\ pollingIntervals' = pollingIntervals
                    /\ callbacks = [w \in Deliveries |-> NewCallback] =>
                          Armed(pollingIntervals', p.id)
             /\ (/\ p.pc = "find" /\ q.pc # "find"
                 /\ FindByCheckout(p.id) # 0
                 /\ transactions[FindByCheckout(p.id)].status = "pending") =>
                    q.pc = "query"]_vars

\* the second tick's query is under way after the first one failed, the
\* transaction still pending
C28_Witness ==
    \E s \in TickSlots :
        /\ ticks[s].pc = "query"
        /\ attempts[ticks[s].id] >= 2
        /\ attempts[ticks[s].id] < MaxAttempts
        /\ transactions[FindByCheckout(ticks[s].id)].status = "pending"

\* C29: the poll ticks of a correlation ID issue at most MaxAttempts status
\* queries, also when a tick is still waiting for the gateway as the next
\* one fires.
C29_AtMostMaxAttemptsQueries ==
    \A id \in CheckoutIds : queries[id] <= MaxAttempts

\* C30: when the gateway answers a status query "still processing",
\* queryStkStatus returns to its caller, which goes on to its next
\* statement; when the gateway fails in any other way queryStkStatus throws
\* and the caller goes to its catch clause; in neither case is a
\* transaction written.
C30_StillProcessingReturnsOthersThrow ==
    [][/\ \A s \in TickSlots :
            LET p == ticks[s]
                q == ticks'[s]
            IN (p.pc = "query" /\ q.pc \notin {"query", "qfind"}) =>
                  /\ transactions' = transactions
                  /\ IF q.code = StillProcessing
                     THEN q.pc = "refetch"
                     ELSE q.pc \in {"idle", "xfind"}
       /\ \A id \in CheckoutIds :
            LET p == timeouts[id]
                q == timeouts'[id]
            IN (p.pc = "query" /\ q.pc \notin {"query", "qfind"}) =>
                  /\ transactions' = transactions
                  /\ IF q.code = StillProcessing
                     THEN q.pc = "refetch"
                     ELSE q.pc = "cancel"]_vars

\* queryStkStatus has returned the in-progress result to the timeout
\* callback, the transaction still pending
C30_Witness ==
    \E id \in CheckoutIds :
        /\ timeouts[id].pc = "refetch"
        /\ timeouts[id].code = StillProcessing
        /\ transactions[FindByCheckout(id)].status = "pending"

\* the timers of Node armed for a correlation ID
ArmedFor(id) == {h \in timer.pending : h.id = id}

\* C31: at most one timer is armed per correlation ID, and it is the one
\* the map holds; no timer's callback is called twice; the timer that
\* elapses is the one most recently set for its ID; after a timer elapses
\* or is cleared hasActiveTimeout is false for its ID and nothing is armed
\* for it.
C31_OneTimeoutPerId ==
    /\ [](\A id \in TimerIds :
            /\ Cardinality(ArmedFor(id)) <= 1
            /\ \A h \in ArmedFor(id) : timer.active[id] = h.handle
            /\ hasActiveTimeout(timer, id) => ArmedFor(id) # {})
    /\ [](\A i, j \in 1..Len(timer.calls) :
            timer.calls[i].handle = timer.calls[j].handle => i = j)
    /\ [][\A id \in TimerIds :
            /\ (\E h \in ArmedFor(id) : h \notin timer'.pending
                                         /\ timer'.nextHandle = timer.nextHandle) =>
                  /\ ~hasActiveTimeout(timer', id)
                  /\ \A h \in timer'.pending : h.id # id
            /\ Len(timer'.calls) > Len(timer.calls) =>
                  \A h \in timer.pending :
                     h.id = timer'.calls[Len(timer'.calls)].id =>
                        h.handle <= timer'.calls[Len(timer'.calls)].handle]_vars

\* a timeout set again for an ID that already had one armed has fired,
\* the earlier one has not
C31_Witness ==
    \E i \in 1..Len(timer.calls) :
        /\ timer.calls[i].handle > 1
        /\ timer.calls[i].id = "ws_1"
        /\ timer.nextHandle = 3
        /\ ~hasActiveTimeout(timer, "ws_1")
        /\ timer.calls[i].due > IntervalSeconds

\* C32: the hard timeout is longer than the grace delay plus MaxAttempts
\* polling intervals, and when the timeout of a transaction fires its
\* poller has made its last attempt: the attempt budget is used up, or the
\* poller has been stopped and is not about to start.
C32_TimeoutAfterLastAttempt ==
    /\ [](TimeoutSeconds > GraceSeconds + IntervalSeconds * MaxAttempts)
    /\ [][\A id \in CheckoutIds :
            (timeouts[id].pc = "idle" /\ timeouts'[id].pc # "idle") =>
               \/ attempts[id] >= MaxAttempts
               \/ ~Armed(pollingIntervals, id) /\ ~Armed(graceTimers, id)]_vars

\* the hard timeout has fired for a transaction whose poller used up its
\* attempts
C32_Witness ==
    \E id \in CheckoutIds :
        /\ timeouts[id].pc = "find"
        /\ attempts[id] = MaxAttempts
        /\ now = TimeoutSeconds

\* C33: every stored transaction with status success has the result code
\* "0".
C33_SuccessHasCodeZero ==
    \A i \in Docs :
        transactions[i].status = "success" => transactions[i].resultCode = "0"

\* C34: every stored transaction with status success has no failure reason.
C34_SuccessHasNoFailureReason ==
    \A i \in Docs :
        transactions[i].status = "success" => transactions[i].failureReason = Null

\* C35: the cancelling write of checkPendingTransactions changes the status
\* of a transaction only if, as the write reaches the store, the
\* transaction is pending with timeoutHandled false and timeoutAt earlier
\* than now.
C35_SweepCancelsOnlyTimedOutPending ==
    [][(sweep.pc = "cancel" /\ sweep'.pc # "cancel") =>
          \A i \in Docs :
             transactions'[i].status # transactions[i].status =>
                /\ transactions[i].status = "pending"
                /\ ~transactions[i].timeoutHandled
                /\ transactions[i].timeoutAt < now]_vars

\* the record without the fields a repair may write
RepairFrame(doc) ==
    [doc EXCEPT !.status = "failed", !.failureReason = Null, !.updatedAt = NoTime]

\* C36: a write of the repair changes only transactions that are failed
\* with result code "0" as the write reaches the store, and of those only
\* status, failureReason and updatedAt.
C36_RepairChangesOnlyIncorrect ==
    [][(repair.pc = "save" /\ repair' # repair) =>
          \A i \in Docs :
             transactions'[i] # transactions[i] =>
                /\ transactions[i].status = "failed"
                /\ transactions[i].resultCode = "0"
                /\ RepairFrame(transactions'[i]) = RepairFrame(transactions[i])]_vars

\* the service call a retry is waiting for
RetryCall ==
    IF transactions[retry.ix].transactionType = "STK_PUSH" THEN initiation ELSE b2cSend

\* C37: while a retry is under way the transaction it retries is not
\* changed, and when the retry of an accepted payment returns the store
\* holds another transaction that is pending under the new correlation ID.
C37_RetryLeavesOriginalAndRecordsNew ==
    /\ [][(retry.pc \in {"find", "await"} /\ retry.ix # 0) =>
             transactions'[retry.ix] = transactions[retry.ix]]_vars
    /\ [][(/\ retry.pc = "await" /\ retry'.pc = "done"
           /\ RetryCall.result = "accepted") =>
             \E j \in 1..Len(transactions') :
                /\ j # retry.ix
                /\ transactions'[j].status = "pending"
                /\ IF transactions[retry.ix].transactionType = "STK_PUSH"
                   THEN /\ transactions'[j].checkoutRequestID = initiation.id
                        /\ initiation.id # transactions[retry.ix].checkoutRequestID
                   ELSE /\ transactions'[j].conversationId = ConversationID
                        /\ ConversationID # transactions[retry.ix].conversationId]_vars

====
